---- MODULE Spec2Model ----
(***************************************************************************)
(* A model of the transport, retry, cache and pagination core of the       *)
(* evergreen.py client (src/src/evergreen/api.py).                         *)
(*                                                                         *)
(* The module holds several specifications over one set of variables; each *)
(* one drives one part of the client and leaves the variables of the other *)
(* parts unchanged:                                                        *)
(*   SpecCall      EvergreenApi._call_api / RetryingEvergreenApi._call_api *)
(*   SpecPaginate  EvergreenApi._paginate                                  *)
(*   SpecCache     CachedEvergreenApi.build_by_id / version_by_id /        *)
(*                 clear_caches                                            *)
(*   SpecLazy      EvergreenApi._lazy_paginate / _lazy_paginate_by_date    *)
(*                 and the methods that return their sequences             *)
(*   SpecStream    EvergreenApi.stream_log / _stream_api                   *)
(*   SpecWindow    EvergreenApi.versions_by_project_time_window /          *)
(*                 patches_by_project_time_window                          *)
(*   SpecSession   EvergreenApi.session / with_session / _create_session   *)
(*   SpecThreads   threads sharing one CachedEvergreenApi                  *)
(*   SpecPages     EvergreenApi._paginate with the attempts of its calls   *)
(*   SpecEndless   EvergreenApi._paginate over next links that never end   *)
(*   SpecFacade    EvergreenApi.get_task_annotation /                      *)
(*                 task_stats_by_project / task_reliability_by_project     *)
(***************************************************************************)
EXTENDS Integers, Sequences, FiniteSets, TLC

VARIABLES
    \* ---- one _call_api call (SpecCall)
    variant,      \* the class of the handle: "base", "cached" or "retrying"
    callPc,       \* "idle", "calling", "returned" or "raised"
    attempts,     \* one record per attempt made by the current call
    callResult,   \* the response returned to the caller (NoResponse if none)
    callFailure,  \* the exception raised to the caller (NoExc if none)
    waits,        \* the waits of the retry decorator between the attempts, in seconds
    \* ---- one _paginate call (SpecPaginate)
    server,       \* url -> [items, next]: the pages the server holds
    pgParams,     \* the params argument of _paginate
    pgPc,         \* "idle", "looping", "returned" or "raised"
    pgResponse,   \* the local variable response (the url of the page it holds)
    pgData,       \* the local variable json_data
    pgRequests,   \* the requests issued so far: a sequence of [url, params]
    \* ---- the lru_cache tables of CachedEvergreenApi (SpecCache)
    cache,        \* table -> sequence of [key, entity], least recently used first
    fetches,      \* the number of network requests issued by the lookups
    probe,        \* the lookup (table and key) whose repeated calls are followed
    run,          \* the calls of the probe lookup since the last clear_caches
    lastOp,       \* the last operation done on the cached handles and its result
    uses,         \* history: the keys looked up in the probe's table, least recent first
    \* ---- one lazy sequence: _lazy_paginate / _lazy_paginate_by_date (SpecLazy)
    lzVia,        \* the method the sequence was created with
    lzPc,         \* "none", "created", "suspended" (at the yield), "done", "raised"
    lzUrl,        \* the url of the last request (next_url / url)
    lzParams,     \* the local variable params of the generator
    lzBuf,        \* the pages the generator holds (json_response / data)
    lzIdx,        \* the position of the for loop in the page held
    lzOut,        \* the items produced to the consumer so far
    lzRequests,   \* the requests issued so far: a sequence of [url, params]
    stamps,       \* page -> the create_time of its first item (by-date endpoint)
    lzCaller,     \* the dict the caller passed as params: as passed, and as it is now
    \* ---- one log stream: stream_log / _stream_api (SpecStream)
    stPc,         \* "none", "created", "suspended", "done", "raised", "closed"
    stConn,       \* the response of the with block: "none", "held" (open), "released" (closed)
    stRes,        \* the response of session.get
    stLines,      \* the lines of the body
    stOut,        \* the lines produced to the consumer so far
    stFailure,    \* the exception the consumer got
    stRequests,   \* the requests issued so far
    stRead,       \* how many lines of the body have been read from the connection
    \* ---- one call of a method that checks its arguments (SpecFacade)
    fcCall,       \* the method called and its arguments
    fcPc,         \* "ready", "raised" (the argument check raised), "passed"
    fcFailure,    \* the exception of the argument check
    fcParams,     \* the keys of the params built by get_task_annotation
    fcSent,       \* what configure_task handed to _call_api, and its arguments
    \* ---- one time window over a lazy sequence (SpecWindow)
    wAfter,       \* the argument after of the *_time_window method
    wBefore,      \* the argument before of the *_time_window method
    \* ---- a handle, the handle its with_session yields, their sessions (SpecSession)
    ssAuth,       \* the auth the handle was constructed with (NoAuth: none)
    ssSessions,   \* the sessions that exist: session number -> its headers
    ssField,      \* handle -> its _session attribute (0: None, no handle yet: -1)
    ssLog,        \* the accesses to `session` and the requests sent, in order
    ssVariant,    \* handle -> its class ("none": no handle yet)
    \* ---- threads sharing one cached handle (SpecThreads)
    thCache,      \* table -> its entries, least recently used first
    thPc,         \* thread -> the lookup it is in the middle of, if any
    thRet,        \* thread -> the identifier it last asked for and what it got
    thFetches,    \* the number of requests issued so far
    \* ---- the calls of _call_api made by one paginated operation (SpecPages)
    rpCalls,      \* the number of calls of _call_api begun
    rpDone        \* for each call that is over, the number of its attempts

callVars == <<variant, callPc, attempts, callResult, callFailure, waits>>
pgVars == <<server, pgParams, pgPc, pgResponse, pgData, pgRequests>>
cacheVars == <<cache, fetches, probe, run, lastOp, uses>>
lzVars == <<lzVia, lzPc, lzUrl, lzParams, lzBuf, lzIdx, lzOut, lzRequests, stamps, lzCaller>>
stVars == <<stPc, stConn, stRes, stLines, stOut, stFailure, stRequests, stRead>>
fcVars == <<fcCall, fcPc, fcFailure, fcParams, fcSent>>
wVars == <<wAfter, wBefore>>
ssVars == <<ssAuth, ssSessions, ssField, ssLog, ssVariant>>
thVars == <<thCache, thPc, thRet, thFetches>>
rpVars == <<rpCalls, rpDone>>
vars == <<callVars, pgVars, cacheVars, lzVars, stVars, fcVars, wVars, ssVars, thVars, rpVars>>

(***************************************************************************)
(* Python values.                                                          *)
(***************************************************************************)

\* A Python str as the sequence of its characters.
StrError == <<"e", "r", "r", "o", "r">>
StrOops == <<"o", "o", "p", "s">>
StrAnError == <<"a", "n", " ", "e", "r", "r", "o", "r">>

Messages == {"msg one", "msg two"}

\* What response.json() gives: the parsed body, or the body is not JSON.
\* kind "object": keys are the keys of the dict, error the value under "error";
\* kind "array": keys are the (string) elements of the list;
\* kind "string": text is the str; kinds "number" and "null" carry nothing.
JsonBody(kind, keys, text, error) ==
    [kind |-> kind, keys |-> keys, text |-> text, error |-> error]

Bodies ==
    {JsonBody("notjson", {}, <<>>, "")}
    \cup {JsonBody("object", ks, <<>>, "") : ks \in {{}, {"message"}}}
    \cup {JsonBody("object", ks, <<>>, m) :
            ks \in {{"error"}, {"error", "message"}}, m \in Messages}
    \cup {JsonBody("array", ks, <<>>, "") : ks \in {{}, {"error"}}}
    \cup {JsonBody("string", {}, t, "") : t \in {StrOops, StrAnError}}
    \cup {JsonBody("number", {}, <<>>, ""), JsonBody("null", {}, <<>>, "")}

Statuses == {200, 404, 500}

Response(status, body) == [status |-> status, body |-> body]
NoResponse == Response(0, JsonBody("none", {}, <<>>, ""))
Responses == {Response(s, b) : s \in Statuses, b \in Bodies}

\* An exception: its class, its message (args[0]) and the status of the
\* response it was raised for (0 when there is no response).
Exc(kind, msg, status) == [kind |-> kind, msg |-> msg, status |-> status]
NoExc == Exc("none", "", 0)
GenericMsg == "generic status message"

\* sub in s, for two str.
IsSubstring(sub, s) ==
    \E i \in 1..(Len(s) - Len(sub) + 1) : SubSeq(s, i, i + Len(sub) - 1) = sub

\* "error" in json_data: TRUE, FALSE, or the TypeError Python raises when
\* json_data is not a container.
InError(body) ==
    CASE body.kind = "object" -> IF "error" \in body.keys THEN "true" ELSE "false"
      [] body.kind = "array" -> IF "error" \in body.keys THEN "true" ELSE "false"
      [] body.kind = "string" -> IF IsSubstring(StrError, body.text) THEN "true" ELSE "false"
      [] OTHER -> "TypeError"

\* json_data["error"]: the value, or the TypeError Python raises when json_data
\* is a list or a str (indices must be integers).
GetError(body) ==
    IF body.kind = "object" THEN Exc("HTTPError", body.error, 0)
    ELSE Exc("TypeError", "indices must be integers", 0)

(***************************************************************************)
(* EvergreenApi._call_api and RetryingEvergreenApi._call_api.              *)
(***************************************************************************)

MAX_RETRIES == 3
START_WAIT_TIME_SEC == 2
MAX_WAIT_TIME_SEC == 5

Variants == {"base", "cached", "retrying"}

\* response.raise_for_status() of the HTTP library: the generic failure for a
\* client error (400 to 499) and for a server error (500 to 599), nothing
\* for any other status.
raise_for_status(response) ==
    IF 400 <= response.status /\ response.status < 600
    THEN Exc("HTTPError", GenericMsg, response.status)
    ELSE NoExc

\* A mutant of _raise_for_status: the body is never inspected.
RaiseForStatusNoJson(response) ==
    [exc |-> raise_for_status(response), rfs |-> 1]

\* EvergreenApi._raise_for_status: the exception that leaves it (NoExc when it
\* returns) and the number of calls of response.raise_for_status() it made.
\* Only JSONDecodeError is caught; any other exception raised while the body
\* is inspected leaves the function before raise_for_status() is reached.
_raise_for_status(response) ==
    LET body == response.body
        generic == [exc |-> raise_for_status(response), rfs |-> 1]
    IN  IF body.kind = "notjson" THEN generic
        ELSE IF response.status >= 400
        THEN CASE InError(body) = "TypeError" ->
                    [exc |-> Exc("TypeError", "not iterable", 0), rfs |-> 0]
               [] InError(body) = "true" ->
                    [exc |-> [GetError(body) EXCEPT !.status =
                                 IF body.kind = "object" THEN response.status ELSE 0],
                     rfs |-> 0]
               [] OTHER -> generic
        ELSE generic

\* What session.request does for one attempt: it returns a response or raises.
Transport(resp, exc) == [resp |-> resp, exc |-> exc]
ConnectionError == Exc("ConnectionError", "connection refused", 0)
ValueError == Exc("ValueError", "Unexpected Failure", 0)
TransportOutcomes ==
    {Transport(r, NoExc) : r \in Responses}
    \cup {Transport(NoResponse, e) : e \in {ConnectionError, ValueError}}

\* One run of the body of EvergreenApi._call_api: the response received, the
\* exception that leaves the body (NoExc when it returns the response) and the
\* number of calls of response.raise_for_status().
_call_api(out) ==
    IF out.exc # NoExc
    THEN [resp |-> NoResponse, exc |-> out.exc, rfs |-> 0]
    ELSE LET r == _raise_for_status(out.resp)
         IN  [resp |-> out.resp, exc |-> r.exc, rfs |-> r.rfs]

\* A mutant of RetryIf: every exception is retried.
RetryIfAny(exc) == TRUE

\* retry_if_exception_type((HTTPError, ConnectionError))
RetryIf(exc) == exc.kind \in {"HTTPError", "ConnectionError"}

\* A mutant of StopAfterAttempt: one attempt fewer.
StopAfterAttemptEarly(n) == n >= MAX_RETRIES - 1

\* stop_after_attempt(MAX_RETRIES)
StopAfterAttempt(n) == n >= MAX_RETRIES

\* A mutant of Reraise: the exhaustion is reported as a RetryError wrapper.
ReraiseWrapped(log) == Exc("RetryError", "RetryError", 0)

\* reraise=True: on exhaustion the exception of the last attempt is raised.
Reraise(log) == log[Len(log)].exc

Min2(a, b) == IF a <= b THEN a ELSE b
Max2(a, b) == IF a >= b THEN a ELSE b

\* A mutant of WaitExponential: the floor is not applied.
WaitExponentialNoFloor(n) == Min2(1 * 2 ^ (n - 1), MAX_WAIT_TIME_SEC)

\* wait_exponential(multiplier=1, min=START_WAIT_TIME_SEC, max=MAX_WAIT_TIME_SEC)
\* after the n-th attempt: multiplier * 2 ** (n - 1), clamped to [min, max].
WaitExponential(n) ==
    Max2(Max2(0, START_WAIT_TIME_SEC), Min2(1 * 2 ^ (n - 1), MAX_WAIT_TIME_SEC))

\* A mutant of HasRetry: every variant retries.
HasRetryAll(v) == TRUE

\* _call_api carries the retry decorator on RetryingEvergreenApi only.
HasRetry(v) == v = "retrying"

\* One attempt of the current call: session.request, _raise_for_status and,
\* on the retrying variant, the decision of the retry decorator.
Attempt(out) ==
    /\ callPc = "calling"
    /\ LET a == _call_api(out)
           log == Append(attempts, a)
           n == Len(log)
       IN  /\ attempts' = log
           /\ IF a.exc = NoExc
              THEN /\ callPc' = "returned"
                   /\ callResult' = a.resp
                   /\ callFailure' = NoExc
                   /\ waits' = waits
              ELSE IF ~HasRetry(variant)
              THEN /\ callPc' = "raised"
                   /\ callFailure' = a.exc
                   /\ callResult' = NoResponse
                   /\ waits' = waits
              ELSE IF ~RetryIf(a.exc)
              THEN /\ callPc' = "raised"
                   /\ callFailure' = a.exc
                   /\ callResult' = NoResponse
                   /\ waits' = waits
              ELSE IF StopAfterAttempt(n)
              THEN /\ callPc' = "raised"
                   /\ callFailure' = Reraise(log)
                   /\ callResult' = NoResponse
                   /\ waits' = waits
              ELSE /\ callPc' = "calling"
                   /\ waits' = Append(waits, WaitExponential(n))
                   /\ UNCHANGED <<callResult, callFailure>>
    /\ UNCHANGED <<variant, pgVars, cacheVars, lzVars, stVars, fcVars, wVars, ssVars, thVars, rpVars>>

CallInit ==
    /\ variant \in Variants
    /\ callPc = "calling"
    /\ attempts = <<>>
    /\ callResult = NoResponse
    /\ callFailure = NoExc
    /\ waits = <<>>

CallIdle ==
    /\ variant = "base"
    /\ callPc = "idle"
    /\ attempts = <<>>
    /\ callResult = NoResponse
    /\ callFailure = NoExc
    /\ waits = <<>>

(***************************************************************************)
(* EvergreenApi._paginate.                                                 *)
(***************************************************************************)

MaxPages == 3
MaxPageLen == 2
MaxLimit == 4

\* The items of page u, each one distinct: <<u, i>> is the i-th item of page u.
PageItems(u, size) == [i \in 1..size |-> <<u, i>>]

\* A chain of n pages linked by next links: page u links to page u + 1, the
\* last page carries no next link (next = 0).
Chain(n, sizes) ==
    [u \in 1..n |-> [items |-> PageItems(u, sizes[u]),
                     next |-> IF u < n THEN u + 1 ELSE 0]]

Chains ==
    UNION {{Chain(n, sizes) : sizes \in [1..n -> 0..MaxPageLen]} : n \in 1..MaxPages}

\* The params argument: None (given = FALSE) or a dict with the keys `keys`
\* and, when "limit" is a key, the value `limit` under it.
Params(given, keys, limit) == [given |-> given, keys |-> keys, limit |-> limit]
NoneParams == Params(FALSE, {}, 0)
ParamsChoices ==
    {NoneParams, Params(TRUE, {}, 0), Params(TRUE, {"status"}, 0)}
    \cup {Params(TRUE, {"limit"}, k) : k \in 0..MaxLimit}

Request(url, params) == [url |-> url, params |-> params]

\* "limit" in params, with params a dict (None has no keys).
HasLimit(params) == params.given /\ "limit" \in params.keys

\* "next" in response.links, for the response that holds page u.
HasNext(u) == server[u].next # 0

\* A mutant of LimitReached: the count must exceed the limit.
LimitReachedStrict(params, data) ==
    /\ params.given /\ params.keys # {}
    /\ "limit" \in params.keys
    /\ Len(data) > params.limit

\* params and "limit" in params and len(json_data) >= params["limit"]
LimitReached(params, data) ==
    /\ params.given /\ params.keys # {}
    /\ "limit" \in params.keys
    /\ Len(data) >= params.limit

\* A mutant of LoopGoesOn: an empty page ends the loop.
LoopGoesOnUntilEmpty(u, params, data) ==
    server[u].items # <<>> /\ HasNext(u) /\ ~LimitReached(params, data)

\* A mutant of LoopGoesOn: the limit is never looked at.
LoopGoesOnNoLimit(u, params, data) == HasNext(u)

\* A mutant of LoopGoesOn: the limit is compared with the size of the last
\* page, not with the size of the list.
LoopGoesOnLastPage(u, params, data) ==
    HasNext(u) /\ ~LimitReached(params, server[u].items)

\* Whether the while loop runs its body once more (it issues the next
\* request), response holding page u: the loop test and the break.
LoopGoesOn(u, params, data) == HasNext(u) /\ ~LimitReached(params, data)

\* A mutant of Extend: the page is dropped.
ExtendNothing(data, page) == data

\* if response.json(): json_data.extend(response.json())
Extend(data, page) == IF page # <<>> THEN data \o page ELSE data

\* The first request of _paginate, answered: json_data is the first page.
PaginateFirst ==
    /\ pgPc = "start"
    /\ pgRequests' = Append(pgRequests, Request(1, pgParams))
    /\ pgResponse' = 1
    /\ pgData' = server[1].items
    /\ pgPc' = IF LoopGoesOn(1, pgParams, server[1].items) THEN "looping" ELSE "returned"
    /\ UNCHANGED <<server, pgParams, callVars, cacheVars, lzVars, stVars, fcVars, wVars, ssVars, thVars, rpVars>>

\* One run of the loop body: the request of the next link (without params),
\* answered, and the page appended.
PaginateNext ==
    /\ pgPc = "looping"
    /\ LET u == server[pgResponse].next
           data == Extend(pgData, server[u].items)
       IN  /\ pgRequests' = Append(pgRequests, Request(u, NoneParams))
           /\ pgResponse' = u
           /\ pgData' = data
           /\ pgPc' = IF LoopGoesOn(u, pgParams, data) THEN "looping" ELSE "returned"
    /\ UNCHANGED <<server, pgParams, callVars, cacheVars, lzVars, stVars, fcVars, wVars, ssVars, thVars, rpVars>>

\* A mutant of PaginateRaise: the failure is swallowed and the items
\* gathered so far are returned.
PaginateRaiseReturnsPartial ==
    /\ pgPc \in {"start", "looping"}
    /\ pgRequests' = Append(pgRequests,
            IF pgPc = "start" THEN Request(1, pgParams)
            ELSE Request(server[pgResponse].next, NoneParams))
    /\ pgPc' = "returned"
    /\ UNCHANGED <<server, pgParams, pgResponse, pgData, callVars, cacheVars, lzVars, stVars, fcVars, wVars, ssVars, thVars, rpVars>>

\* A request of _paginate whose _call_api raises: the exception leaves _paginate.
PaginateRaise ==
    /\ pgPc \in {"start", "looping"}
    /\ pgRequests' = Append(pgRequests,
            IF pgPc = "start" THEN Request(1, pgParams)
            ELSE Request(server[pgResponse].next, NoneParams))
    /\ pgPc' = "raised"
    /\ UNCHANGED <<server, pgParams, pgResponse, pgData, callVars, cacheVars, lzVars, stVars, fcVars, wVars, ssVars, thVars, rpVars>>

\* A chain whose last page links back to page `back`: the next links never end.
Cycle(n, sizes, back) ==
    [u \in 1..n |-> [items |-> PageItems(u, sizes[u]),
                     next |-> IF u < n THEN u + 1 ELSE back]]

Cycles ==
    UNION {{Cycle(n, sizes, back) : sizes \in [1..n -> 0..MaxPageLen], back \in 1..n} :
               n \in 1..MaxPages}

\* The requests a run over next links that never end is followed for.
MaxRequests == 6

\* One run of the loop body, over a chain that may not end.
EndlessNext == Len(pgRequests) < MaxRequests /\ PaginateNext

\* _paginate(url, params) over a chain that ends or not.
EndlessInit ==
    /\ server \in Chains \cup Cycles
    /\ pgParams \in ParamsChoices
    /\ pgPc = "start"
    /\ pgResponse = 0
    /\ pgData = <<>>
    /\ pgRequests = <<>>

PaginateInit ==
    /\ server \in Chains
    /\ pgParams \in ParamsChoices
    /\ pgPc = "start"
    /\ pgResponse = 0
    /\ pgData = <<>>
    /\ pgRequests = <<>>

PaginateIdle ==
    /\ server = Chain(1, [u \in 1..1 |-> 0])
    /\ pgParams = NoneParams
    /\ pgPc = "idle"
    /\ pgResponse = 0
    /\ pgData = <<>>
    /\ pgRequests = <<>>

(***************************************************************************)
(* CachedEvergreenApi: build_by_id, version_by_id, clear_caches.           *)
(*                                                                         *)
(* lru_cache decorates the two functions in the class body, so each of the *)
(* two tables is one table for every handle of the class, and the handle   *)
(* (self) is part of the key. lru_cache builds the key from the arguments  *)
(* of the call as they are written: the positional ones, then, if there    *)
(* are keyword ones, a mark and every name with its value. The same        *)
(* identifier passed by position and passed by name makes two keys.        *)
(***************************************************************************)

\* CACHE_SIZE is 5000 in the source (api.py:52); the model runs it scaled down.
CACHE_SIZE == 2
MaxFetches == 3

Tables == {"build_by_id", "version_by_id"}
Handles == {"A", "B"}
Ids == {"id1", "id2"}

\* How the caller writes the identifier: h.build_by_id(id) or
\* h.build_by_id(build_id=id).
Forms == {"positional", "keyword"}

\* The name of the parameter of the function behind table t.
ArgName(t) == IF t = "build_by_id" THEN "build_id" ELSE "version_id"

\* The key of lru_cache for a call on handle h: (self, id) for a positional
\* argument, (self, kwd_mark, name, id) for a keyword argument.
MakeKey(t, h, form, id) ==
    IF form = "positional" THEN <<h, id>> ELSE <<h, "kwd_mark", ArgName(t), id>>

\* The callers of the lookups: handle A passes the identifier both ways,
\* handle B by position.
Callers == {<<"A", "positional">>, <<"A", "keyword">>, <<"B", "positional">>}

Keys(t) == {MakeKey(t, c[1], c[2], id) : c \in Callers, id \in Ids}

\* The handle and the identifier a key was made from.
HandleOf(key) == key[1]
IdOf(key) == key[Len(key)]
Ident(key) == <<HandleOf(key), IdOf(key)>>

\* The entity built by handle h from the answer to network request number n.
Entity(h, id, n) == [handle |-> h, id |-> id, fetch |-> n]
NoEntity == Entity("", "", 0)
NoKey == <<"", "">>

Entry(key, entity) == [key |-> key, entity |-> entity]
CacheKeys(c) == {c[i].key : i \in DOMAIN c}
IndexOf(c, key) == CHOOSE i \in DOMAIN c : c[i].key = key
CacheGet(c, key) == c[IndexOf(c, key)].entity

\* A hit makes the entry the most recently used one.
Touch(c, key) ==
    LET i == IndexOf(c, key)
    IN  SubSeq(c, 1, i - 1) \o SubSeq(c, i + 1, Len(c)) \o <<c[i]>>

\* A miss stores the result as the most recently used entry; a full table
\* drops its least recently used entry first.
Insert(c, key, entity) ==
    IF Len(c) >= CACHE_SIZE
    THEN Tail(c) \o <<Entry(key, entity)>>
    ELSE Append(c, Entry(key, entity))

\* The table after a miss: the wrapper stores the result only once the
\* wrapped function has returned; an exception leaves through the wrapper
\* and nothing is stored.
Stored(c, key, entity, ok) == IF ok THEN Insert(c, key, entity) ELSE c

\* A mutant of Cleared: only the first table is cleared.
ClearedBuildOnly(c) == [c EXCEPT !["build_by_id"] = <<>>]

\* for fn in cached_functions: fn.cache_clear()
Cleared(c) == [t \in Tables |-> <<>>]

Op(op, table, key, ok, fetched, entity) ==
    [op |-> op, table |-> table, key |-> key, ok |-> ok, fetched |-> fetched,
     entity |-> entity]

Run(ent, reqs, others) == [ent |-> ent, reqs |-> reqs, others |-> others]
NoRun == Run(NoEntity, 0, {})

\* The bookkeeping of the probe: a lookup of table t under key `key` was
\* made, it issued a request or not, and returned `entity` (NoEntity: it
\* raised). The probe is one identifier on one handle, however it is passed.
RunAfter(t, key, fetched, entity) ==
    IF t # probe.table THEN run
    ELSE IF Ident(key) # <<probe.handle, probe.id>>
    THEN IF run.ent = NoEntity THEN run
         ELSE [run EXCEPT !.others = @ \cup {Ident(key)}]
    ELSE IF entity = NoEntity THEN run
    ELSE IF run.ent = NoEntity THEN Run(entity, IF fetched THEN 1 ELSE 0, {})
    ELSE [run EXCEPT !.reqs = @ + (IF fetched THEN 1 ELSE 0)]

\* The bookkeeping of the uses: a successful lookup of key in table t makes
\* key the most recent use of the probe's table.
UsesAfter(t, key, ok) ==
    IF t # probe.table \/ ~ok THEN uses
    ELSE SelectSeq(uses, LAMBDA k : k # key) \o <<key>>

\* h.build_by_id(id) or h.build_by_id(build_id=id) (t = "build_by_id"), or
\* the same of version_by_id, on a cached handle h; ok tells whether the
\* wrapped lookup, when it is called, succeeds.
Lookup(t, h, form, id, ok) ==
    LET key == MakeKey(t, h, form, id)
    IN  /\ IF key \in CacheKeys(cache[t])
           THEN /\ ok
                /\ cache' = [cache EXCEPT ![t] = Touch(@, key)]
                /\ fetches' = fetches
                /\ uses' = UsesAfter(t, key, TRUE)
                /\ run' = RunAfter(t, key, FALSE, CacheGet(cache[t], key))
                /\ lastOp' = Op("lookup", t, key, TRUE, FALSE,
                                CacheGet(cache[t], key))
           ELSE /\ fetches < MaxFetches
                /\ fetches' = fetches + 1
                /\ LET entity == IF ok THEN Entity(h, id, fetches + 1) ELSE NoEntity
                   IN  /\ cache' = [cache EXCEPT ![t] = Stored(@, key, entity, ok)]
                       /\ run' = RunAfter(t, key, TRUE, entity)
                       /\ uses' = UsesAfter(t, key, ok)
                       /\ lastOp' = Op("lookup", t, key, ok, TRUE, entity)
        /\ UNCHANGED <<probe, callVars, pgVars, lzVars, stVars, fcVars, wVars, ssVars, thVars, rpVars>>

\* h.clear_caches() on a cached handle h.
ClearCaches(h) ==
    /\ cache' = Cleared(cache)
    /\ run' = NoRun
    /\ uses' = <<>>
    /\ lastOp' = Op("clear", "", <<h, "">>, TRUE, FALSE, NoEntity)
    /\ UNCHANGED <<fetches, probe, callVars, pgVars, lzVars, stVars, fcVars, wVars, ssVars, thVars, rpVars>>

CacheInit ==
    /\ cache = [t \in Tables |-> <<>>]
    /\ fetches = 0
    /\ probe = [table |-> "build_by_id", handle |-> "A", id |-> "id1"]
    /\ run = NoRun
    /\ lastOp = Op("none", "", NoKey, TRUE, FALSE, NoEntity)
    /\ uses = <<>>

CacheIdle ==
    /\ cache = [t \in Tables |-> <<>>]
    /\ fetches = 0
    /\ probe = [table |-> "build_by_id", handle |-> "A", id |-> "id1"]
    /\ run = NoRun
    /\ lastOp = Op("none", "", NoKey, TRUE, FALSE, NoEntity)
    /\ uses = <<>>

(***************************************************************************)
(* EvergreenApi._lazy_paginate and _lazy_paginate_by_date: generators. A   *)
(* call creates the generator and runs none of its body; each pull of the  *)
(* consumer (next) runs the body up to the next yield, to its end, or to   *)
(* an exception.                                                           *)
(***************************************************************************)

DEFAULT_LIMIT == 100

\* The create_time a page may start at.
FirstStamps == {1, 2}

\* A timestamp string: the instant t written in the format fmt.
Stamp(fmt, t) == [fmt |-> fmt, t |-> t]
NoStamp == Stamp("none", 0)

\* The create_time of an item as the server writes it.
CreateTime(item) == Stamp("%Y-%m-%dT%H:%M:%S.%fZ", stamps[item[1]] + item[2] - 1)

\* evergreen.util.evergreen_input_to_output: the timestamp of an item written
\* in the form the endpoint takes as a query parameter.
evergreen_input_to_output(s) == Stamp("input", s.t)

\* The params of a lazy sequence: None (given = FALSE) or a dict with the keys
\* `keys`, the value `limit` under "limit" and `start_at` under "start_at".
LzParams(given, keys, limit, start_at) ==
    [given |-> given, keys |-> keys, limit |-> limit, start_at |-> start_at]
LzNone == LzParams(FALSE, {}, 0, NoStamp)
LzEmpty == LzParams(TRUE, {}, 0, NoStamp)

\* What a caller passes as params.
CallerParams ==
    {LzNone, LzEmpty,
     LzParams(TRUE, {"limit"}, 2, NoStamp),
     LzParams(TRUE, {"limit", "start_at"}, 2, Stamp("input", 1))}

LazyMethods ==
    {"_lazy_paginate", "_lazy_paginate_by_date", "versions_by_project",
     "patches_by_project", "patches_by_user"}

\* The pagination the method is built on: by next link or by date.
KindOf(via) ==
    IF via \in {"_lazy_paginate_by_date", "patches_by_project"} THEN "date" ELSE "link"

\* The params the method hands to the generator, cp being the caller's:
\* versions_by_project builds {"requester": ...}; patches_by_user builds a dict
\* of the start_at and limit it was given; the others forward cp.
FacadeParams(via, cp) ==
    CASE via = "versions_by_project" -> LzParams(TRUE, {"requester"}, 0, NoStamp)
      [] via = "patches_by_user" -> [cp EXCEPT !.given = TRUE]
      [] OTHER -> cp

LzRequest(url, params) == [url |-> url, params |-> params]

\* A mutant of AtCreation: the first request is issued when the sequence is made.
AtCreationEager(url, params) == <<LzRequest(url, params)>>

\* The requests issued by the call that creates the sequence: the body of a
\* generator function does not run before the first pull.
AtCreation(url, params) == <<>>

\* if not params: params = {"limit": DEFAULT_LIMIT}
EffectiveParams(p) ==
    IF ~(p.given /\ p.keys # {})
    THEN LzParams(TRUE, {"limit"}, DEFAULT_LIMIT, NoStamp)
    ELSE p

\* The page the n-th request of the by-date endpoint is answered with: the
\* pages of the server in order, then empty pages.
DatePage(n) == IF n <= Len(server) THEN server[n].items ELSE <<>>

\* The page held by the for loop.
CurPage == lzBuf[Len(lzBuf)]

\* A mutant of Rebind: the pages fetched are kept.
RebindKeep(buf, page) == Append(buf, page)

\* json_response = response.json() / data = ....json(): the local variable is
\* bound to the new page, the page it held is dropped.
Rebind(buf, page) == <<page>>

\* A mutant of PageEnds: a page of fewer than 2 items ends the sequence.
PageEndsShort(page) == Len(page) < 2

\* if not json_response: break / if not data: break
PageEnds(page) == page = <<>>

\* A mutant of AtPageEnd: the loop leaves the page one item early.
AtPageEndEarly(idx, page) == idx >= Len(page) - 1

\* The for loop over the page has produced every item of it.
AtPageEnd(idx, page) == idx = Len(page)

\* A mutant of Yield: the first item of the page is produced again.
YieldFirst(out, page, idx) == Append(out, page[1])

\* yield result, for the idx-th item of the page.
Yield(out, page, idx) == Append(out, page[idx])

\* A mutant of LastItem: the first item of the page.
FirstItem(page) == page[1]

\* data[-1]
LastItem(page) == page[Len(page)]

\* params["start_at"] = evergreen_input_to_output(data[-1]["create_time"])
AdvanceCursor(p, page) ==
    [p EXCEPT !.keys = @ \cup {"start_at"},
              !.start_at = evergreen_input_to_output(CreateTime(LastItem(page)))]

\* The pull runs the body up to a request: it is the first pull, or the page
\* held is finished and the loop goes round (by date: always; by link: when
\* the response carries a next link).
PullRequests ==
    \/ lzPc = "created"
    \/ /\ lzPc = "suspended"
       /\ AtPageEnd(lzIdx, CurPage)
       /\ KindOf(lzVia) = "date" \/ HasNext(lzUrl)

\* The url and the params of the request the pull issues.
PullUrl ==
    IF lzPc = "suspended" /\ KindOf(lzVia) = "link" THEN server[lzUrl].next ELSE lzUrl
PullParams ==
    CASE lzPc = "created" -> EffectiveParams(lzParams)
      [] KindOf(lzVia) = "date" -> AdvanceCursor(lzParams, CurPage)
      [] OTHER -> lzParams

\* The page the request is answered with.
PullPage ==
    IF KindOf(lzVia) = "link" THEN server[PullUrl].items
    ELSE DatePage(Len(lzRequests) + 1)

\* The caller's dict, as it was passed and as it is now.
Caller(passed, now) == [passed |-> passed, now |-> now]

\* Is the params of the generator the very dict the caller passed? The
\* methods that forward params hand the caller's object on, and the
\* generator replaces it by a dict of its own only when it is None or empty.
Aliased(via, cp) ==
    /\ via \notin {"versions_by_project", "patches_by_user"}
    /\ EffectiveParams(cp) = cp

\* The caller's dict after the generator has set its params to p.
CallerAfter(via, c, p) == IF Aliased(via, c.passed) THEN Caller(c.passed, p) ELSE c

\* A call of one of the methods: the sequence is created.
LazyCreate(via, cp) ==
    /\ lzPc = "none"
    /\ via = "versions_by_project" => cp = LzNone
    /\ lzVia' = via
    /\ lzParams' = FacadeParams(via, cp)
    /\ lzUrl' = 1
    /\ lzRequests' = lzRequests \o AtCreation(1, FacadeParams(via, cp))
    /\ stamps' \in IF KindOf(via) = "date"
                   THEN [1..Len(server) -> FirstStamps]
                   ELSE {[u \in 1..Len(server) |-> 1]}
    /\ lzPc' = "created"
    /\ lzCaller' = Caller(cp, cp)
    /\ UNCHANGED <<lzBuf, lzIdx, lzOut, callVars, pgVars, cacheVars, stVars, fcVars, wVars, ssVars, thVars, rpVars>>

\* A pull that issues a request which is answered: an empty page ends the
\* sequence, any other page is held and its first item is produced.
LazyFetch ==
    /\ PullRequests
    /\ lzRequests' = Append(lzRequests, LzRequest(PullUrl, PullParams))
    /\ lzUrl' = PullUrl
    /\ lzParams' = PullParams
    /\ lzCaller' = CallerAfter(lzVia, lzCaller, PullParams)
    /\ lzBuf' = Rebind(lzBuf, PullPage)
    /\ IF PageEnds(PullPage)
       THEN /\ lzPc' = "done"
            /\ lzIdx' = 0
            /\ lzOut' = lzOut
       ELSE /\ lzPc' = "suspended"
            /\ lzIdx' = 1
            /\ lzOut' = Yield(lzOut, PullPage, 1)
    /\ UNCHANGED <<lzVia, stamps, callVars, pgVars, cacheVars, stVars, fcVars, wVars, ssVars, thVars, rpVars>>

\* A pull that issues a request whose _call_api raises: the exception reaches
\* the consumer and the generator is finished.
LazyFetchRaise ==
    /\ PullRequests
    /\ lzRequests' = Append(lzRequests, LzRequest(PullUrl, PullParams))
    /\ lzUrl' = PullUrl
    /\ lzParams' = PullParams
    /\ lzCaller' = CallerAfter(lzVia, lzCaller, PullParams)
    /\ lzPc' = "raised"
    /\ UNCHANGED <<lzVia, lzBuf, lzIdx, lzOut, stamps, callVars, pgVars, cacheVars, stVars, fcVars, wVars, ssVars, thVars, rpVars>>

\* A pull answered from the page held: the next item of it is produced.
LazyYield ==
    /\ lzPc = "suspended"
    /\ ~AtPageEnd(lzIdx, CurPage)
    /\ lzIdx' = lzIdx + 1
    /\ lzOut' = Yield(lzOut, CurPage, lzIdx + 1)
    /\ UNCHANGED <<lzVia, lzPc, lzUrl, lzParams, lzBuf, lzRequests, stamps, lzCaller,
                   callVars, pgVars, cacheVars, stVars, fcVars, wVars, ssVars, thVars, rpVars>>

\* A pull at the end of the last page of a chain (no next link): the
\* sequence ends without a request.
LazyStop ==
    /\ lzPc = "suspended"
    /\ AtPageEnd(lzIdx, CurPage)
    /\ KindOf(lzVia) = "link" /\ ~HasNext(lzUrl)
    /\ lzPc' = "done"
    /\ UNCHANGED <<lzVia, lzUrl, lzParams, lzBuf, lzIdx, lzOut, lzRequests, stamps, lzCaller,
                   callVars, pgVars, cacheVars, stVars, fcVars, wVars, ssVars, thVars, rpVars>>

LazyIdle ==
    /\ lzVia = "_lazy_paginate"
    /\ lzPc = "idle"
    /\ lzUrl = 0
    /\ lzParams = LzNone
    /\ lzBuf = <<>>
    /\ lzIdx = 0
    /\ lzOut = <<>>
    /\ lzRequests = <<>>
    /\ stamps = <<>>
    /\ lzCaller = Caller(LzNone, LzNone)

\* No sequence yet, and the pages of the server.
LazyInit ==
    /\ server \in Chains
    /\ pgParams = NoneParams
    /\ pgPc = "idle"
    /\ pgResponse = 0
    /\ pgData = <<>>
    /\ pgRequests = <<>>
    /\ lzVia = "_lazy_paginate"
    /\ lzPc = "none"
    /\ lzUrl = 0
    /\ lzParams = LzNone
    /\ lzBuf = <<>>
    /\ lzIdx = 0
    /\ lzOut = <<>>
    /\ lzRequests = <<>>
    /\ stamps = <<>>
    /\ lzCaller = Caller(LzNone, LzNone)

(***************************************************************************)
(* EvergreenApi.stream_log / _stream_api: a generator that holds the       *)
(* response of session.get(stream=True) in a with statement while it       *)
(* produces the lines of the body.                                         *)
(***************************************************************************)

MaxLines == 3

Lines == {"line_0", "line_1"}
LineSeqs == UNION {[1..n -> Lines] : n \in 0..MaxLines}

\* params = {"text": "true"}; session.get(url=url, params=params, stream=True, ...)
StreamRequest == [url |-> "log_url", params |-> {"text"}, stream |-> TRUE]

\* A mutant of ExitWith: the response is left open.
ExitWithLeak(conn) == conn

\* The exit of `with self.session.get(...) as res`: the response is closed and
\* its connection released, however the block is left. conn tells where the
\* response of the with block is: "held" inside the block (the response is
\* open), "released" once the block is left (the response is closed).
ExitWith(conn) == IF conn = "held" THEN "released" ELSE conn

\* A mutant of StreamRetries: the stream is retried as _call_api is.
StreamRetriesAsCall(v, exc, n) == HasRetry(v) /\ RetryIf(exc) /\ ~StopAfterAttempt(n)

\* After the n-th request of a stream failed with exc on variant v, is the
\* request issued again? RetryingEvergreenApi decorates _call_api only;
\* _stream_api is inherited as it is, on every variant.
StreamRetries(v, exc, n) == FALSE

\* The read-ahead of iter_lines, in lines: one chunk of the body.
ReadAhead == 1

\* response.json() in _raise_for_status, called for every response: it
\* loads response.content, that is, it reads the body to its end.
JsonReads(lines) == Len(lines)

\* res.iter_lines(): to produce line i it has read up to one chunk past it,
\* unless more was read before (it then serves the lines from the content).
IterLinesReads(read, i, lines) == Max2(read, Min2(Len(lines), i + ReadAhead))

\* stream_log(log_url): the generator is created, none of its body runs.
StreamCreate ==
    /\ stPc = "none"
    /\ stPc' = "created"
    /\ UNCHANGED <<stConn, stRes, stLines, stOut, stFailure, stRequests, stRead,
                   callVars, pgVars, cacheVars, lzVars, fcVars, wVars, ssVars, thVars, rpVars>>

\* The first pull, session.get raises: no response, no connection.
StreamConnectRaise ==
    /\ stPc = "created"
    /\ stRequests' = Append(stRequests, StreamRequest)
    /\ IF StreamRetries(variant, ConnectionError, Len(stRequests) + 1)
       THEN UNCHANGED <<stPc, stFailure>>
       ELSE /\ stPc' = "raised"
            /\ stFailure' = ConnectionError
    /\ UNCHANGED <<stConn, stRes, stLines, stOut, stRead, callVars, pgVars, cacheVars, lzVars, fcVars, wVars, ssVars, thVars, rpVars>>

\* The first pull, session.get answers and the body is read to its end: the
\* with block is entered, the status is classified, and either the
\* classification raises, the body has no line, or the first line is
\* produced and the generator is suspended inside the with block.
StreamOpen(res, lines) ==
    /\ stPc = "created"
    /\ stRequests' = Append(stRequests, StreamRequest)
    /\ stRes' = res
    /\ stRead' = IF lines = <<>> THEN JsonReads(lines)
                 ELSE IterLinesReads(JsonReads(lines), 1, lines)
    /\ LET exc == _raise_for_status(res).exc
       IN  IF exc # NoExc
           THEN /\ lines = <<>>
                /\ IF StreamRetries(variant, exc, Len(stRequests) + 1)
                   THEN UNCHANGED <<stPc, stFailure>>
                   ELSE /\ stPc' = "raised"
                        /\ stFailure' = exc
                /\ stConn' = ExitWith("held")
                /\ UNCHANGED <<stLines, stOut>>
           ELSE /\ stLines' = lines
                /\ stFailure' = stFailure
                /\ IF lines = <<>>
                   THEN /\ stPc' = "done"
                        /\ stConn' = ExitWith("held")
                        /\ stOut' = stOut
                   ELSE /\ stPc' = "suspended"
                        /\ stConn' = "held"
                        /\ stOut' = Append(stOut, lines[1])
    /\ UNCHANGED <<callVars, pgVars, cacheVars, lzVars, fcVars, wVars, ssVars, thVars, rpVars>>

\* A later pull: the next line is produced, or the lines are exhausted and
\* the with block is left.
StreamNext ==
    /\ stPc = "suspended"
    /\ IF Len(stOut) < Len(stLines)
       THEN /\ stOut' = Append(stOut, stLines[Len(stOut) + 1])
            /\ stRead' = IterLinesReads(stRead, Len(stOut) + 1, stLines)
            /\ UNCHANGED <<stPc, stConn>>
       ELSE /\ stPc' = "done"
            /\ stConn' = ExitWith(stConn)
            /\ UNCHANGED <<stOut, stRead>>
    /\ UNCHANGED <<stRes, stLines, stFailure, stRequests, callVars, pgVars, cacheVars, lzVars, fcVars, wVars, ssVars, thVars, rpVars>>

\* What the read of a body raises when the connection fails under it: a
\* ConnectionError when the read times out, a ChunkedEncodingError (which is
\* no ConnectionError) when the server ends a chunked body early.
ChunkedEncodingError == Exc("ChunkedEncodingError", "Connection broken", 0)
ReadFailures == {ConnectionError, ChunkedEncodingError}

\* The first pull, session.get answers and the connection fails after k
\* lines of the body: response.json() in _raise_for_status, which reads the
\* body to its end, raises before the status is looked at and before any
\* line is produced; the exception is no JSONDecodeError and leaves the with
\* block. No later pull reads from the connection: once response.json() has
\* returned, iter_lines serves the lines from the content it loaded.
StreamReadRaise(res, lines, k, exc) ==
    /\ stPc = "created"
    /\ k < Len(lines)
    /\ stRequests' = Append(stRequests, StreamRequest)
    /\ stRes' = res
    /\ stRead' = k
    /\ IF StreamRetries(variant, exc, Len(stRequests) + 1)
       THEN UNCHANGED <<stPc, stFailure>>
       ELSE /\ stPc' = "raised"
            /\ stFailure' = exc
    /\ stConn' = ExitWith("held")
    /\ UNCHANGED <<stLines, stOut, callVars, pgVars, cacheVars, lzVars, fcVars, wVars, ssVars, thVars, rpVars>>

\* The consumer closes the generator: GeneratorExit is raised at the yield
\* and leaves the with block; a generator not started just ends.
StreamClose ==
    /\ stPc \in {"created", "suspended"}
    /\ stPc' = "closed"
    /\ stConn' = ExitWith(stConn)
    /\ UNCHANGED <<stRes, stLines, stOut, stFailure, stRequests, stRead,
                   callVars, pgVars, cacheVars, lzVars, fcVars, wVars, ssVars, thVars, rpVars>>

StreamStart(pc) ==
    /\ stPc = pc
    /\ stConn = "none"
    /\ stRes = NoResponse
    /\ stLines = <<>>
    /\ stOut = <<>>
    /\ stFailure = NoExc
    /\ stRequests = <<>>
    /\ stRead = 0

\* A handle of any of the three variants, and no stream yet.
StreamInit ==
    /\ StreamStart("none")
    /\ variant \in Variants
    /\ callPc = "idle"
    /\ attempts = <<>>
    /\ callResult = NoResponse
    /\ callFailure = NoExc
    /\ waits = <<>>
StreamIdle == StreamStart("idle")

(***************************************************************************)
(* The methods that check their arguments before they call the API:        *)
(* get_task_annotation, task_stats_by_project, task_reliability_by_project.*)
(***************************************************************************)

CheckedMethods ==
    {"get_task_annotation", "task_stats_by_project", "task_reliability_by_project"}

\* Python values of the arguments, written as their repr.
Executions == {"None", "0", "1"}
FetchAlls == {"None", "False", "True"}
Tests == {"None", "[]", "['test_0']"}

\* bool(x)
Truthy(x) == x \notin {"None", "0", "False", "[]", "''"}

Call(method, execution, fetch_all_executions, tests) ==
    [method |-> method, execution |-> execution,
     fetch_all_executions |-> fetch_all_executions, tests |-> tests]
NoCall == Call("none", "None", "None", "None")

\* A mutant of ArgumentsInvalid: the arguments are tested for truth.
ArgumentsInvalidTruthy(c) ==
    IF c.method = "get_task_annotation"
    THEN Truthy(c.execution) /\ Truthy(c.fetch_all_executions)
    ELSE Truthy(c.tests)

\* if execution is not None and fetch_all_executions is not None: raise ...
\* if stats_spec.tests is not None: raise ...
ArgumentsInvalid(c) ==
    IF c.method = "get_task_annotation"
    THEN c.execution # "None" /\ c.fetch_all_executions # "None"
    ELSE c.tests # "None"

\* The ValueError of the argument check.
ArgumentError(c) ==
    IF c.method = "get_task_annotation"
    THEN Exc("ValueError", "'execution' and 'fetch_all_executions' are mutually-exclusive", 0)
    ELSE Exc("ValueError", "'tests' param is invalid for task stats.", 0)

\* The params get_task_annotation builds: the arguments that are true.
AnnotationParams(c) ==
    {k \in {"execution", "fetch_all_executions"} : Truthy(c[k])}

\* A call of one of the methods up to its first request: the argument check
\* raises, or get_task_annotation goes on to _call_api, or the stats methods
\* go on to _paginate with stats_spec.get_params().
FacadeCall(c) ==
    /\ fcPc = "ready"
    /\ fcCall' = c
    /\ IF ArgumentsInvalid(c)
       THEN /\ fcPc' = "raised"
            /\ fcFailure' = ArgumentError(c)
            /\ UNCHANGED <<fcParams, callVars, pgVars, wVars, ssVars, thVars, rpVars>>
       ELSE /\ fcPc' = "passed"
            /\ fcFailure' = NoExc
            /\ IF c.method = "get_task_annotation"
               THEN /\ fcParams' = AnnotationParams(c)
                    /\ callPc' = "calling"
                    /\ UNCHANGED <<variant, attempts, callResult, callFailure, waits, pgVars, wVars, ssVars, thVars, rpVars>>
               ELSE /\ server' \in Chains
                    /\ pgParams' = Params(TRUE, {}, 0)
                    /\ pgPc' = "start"
                    /\ UNCHANGED <<fcParams, pgResponse, pgData, pgRequests, callVars, wVars, ssVars, thVars, rpVars>>
    /\ UNCHANGED <<fcSent, cacheVars, lzVars, stVars, wVars, ssVars, thVars, rpVars>>

\* The values of activated and priority, written as their repr.
Activateds == {"None", "False", "True"}
Priorities == {"None", "0", "1"}

\* json.dumps of a bool or an int.
JsonValue(x) == IF x = "True" THEN "true" ELSE IF x = "False" THEN "false" ELSE x

\* data = {}; if activated: data["activated"] = activated;
\* if priority: data["priority"] = priority; json.dumps(data)
ConfigureData(activated, priority) ==
    (IF Truthy(activated) THEN {<<"activated", JsonValue(activated)>>} ELSE {})
    \cup (IF Truthy(priority) THEN {<<"priority", JsonValue(priority)>>} ELSE {})

\* What configure_task hands to _call_api, with its own arguments.
Sent(method, url, data, activated, priority) ==
    [method |-> method, url |-> url, data |-> data,
     activated |-> activated, priority |-> priority]
NoSent == Sent("none", "", {}, "None", "None")

\* configure_task(task_id, activated, priority) up to its request:
\* self._call_api(url, data=json.dumps(data), method="PATCH")
ConfigureTask(activated, priority) ==
    /\ fcPc = "ready"
    /\ fcCall' = Call("configure_task", "None", "None", "None")
    /\ fcPc' = "passed"
    /\ fcFailure' = NoExc
    /\ fcSent' = Sent("PATCH", "/tasks/task_id", ConfigureData(activated, priority),
                      activated, priority)
    /\ callPc' = "calling"
    /\ UNCHANGED <<fcParams, variant, attempts, callResult, callFailure, waits, pgVars,
                   cacheVars, lzVars, stVars, wVars, ssVars, thVars, rpVars>>

\* The calls that change a task and take no choice of arguments here.
TaskChanges == {"restart_task", "abort_task", "annotate_task"}

\* What they hand to _call_api: restart_task and abort_task a POST without
\* body, annotate_task a PUT with json.dumps(request).
ChangeSent(op) ==
    CASE op = "restart_task" -> Sent("POST", "/tasks/task_id/restart", {}, "None", "None")
      [] op = "abort_task" -> Sent("POST", "/tasks/task_id/abort", {}, "None", "None")
      [] OTHER -> Sent("PUT", "/tasks/task_id/annotation",
                       {<<"task_id", "task_id">>}, "None", "None")

\* restart_task(task_id), abort_task(task_id), annotate_task(task_id) up to
\* their request.
ChangeTask(op) ==
    /\ fcPc = "ready"
    /\ fcCall' = Call(op, "None", "None", "None")
    /\ fcPc' = "passed"
    /\ fcFailure' = NoExc
    /\ fcSent' = ChangeSent(op)
    /\ callPc' = "calling"
    /\ UNCHANGED <<fcParams, variant, attempts, callResult, callFailure, waits, pgVars,
                   cacheVars, lzVars, stVars, wVars, ssVars, thVars, rpVars>>

\* The values of variants and description, written as their repr: no list,
\* an empty list or a list of one variant with its tasks; no str, an empty
\* str or a str.
VariantLists == {"None", "[]", "[{'id': 'v', 'tasks': ['t']}]"}
Descriptions == {"None", "''", "'d'"}

\* data = {}; if variants: data["variants"] = variants;
\* if description: data["description"] = description; json.dumps(data)
ConfigurePatchData(variants, description) ==
    (IF Truthy(variants) THEN {<<"variants", variants>>} ELSE {})
    \cup (IF Truthy(description) THEN {<<"description", description>>} ELSE {})

\* configure_patch(patch_id, variants, description) up to its request:
\* self._call_api(url, data=json.dumps(data), method="POST")
ConfigurePatch(variants, description) ==
    /\ fcPc = "ready"
    /\ fcCall' = Call("configure_patch", "None", "None", "None")
    /\ fcPc' = "passed"
    /\ fcFailure' = NoExc
    /\ fcSent' = Sent("POST", "/patches/patch_id/configure",
                      ConfigurePatchData(variants, description), "None", "None")
    /\ callPc' = "calling"
    /\ UNCHANGED <<fcParams, variant, attempts, callResult, callFailure, waits, pgVars,
                   cacheVars, lzVars, stVars, wVars, ssVars, thVars, rpVars>>

\* A mutant of AttemptSends: a retry falls back to the default method.
AttemptSendsGet(sent, n) == IF n > 1 THEN [sent EXCEPT !.method = "GET"] ELSE sent

\* The request of the n-th attempt of a call: the retry decorator calls the
\* wrapped function again with the arguments of the call, and
\* RetryingEvergreenApi._call_api hands url, params, method and data on.
AttemptSends(sent, n) == sent

FacadeStart(pc) ==
    /\ fcCall = NoCall
    /\ fcPc = pc
    /\ fcFailure = NoExc
    /\ fcParams = {}
    /\ fcSent = NoSent

\* A handle of any of the three variants, no call made yet.
FacadeInit ==
    /\ FacadeStart("ready")
    /\ variant \in Variants
    /\ callPc = "idle"
    /\ attempts = <<>>
    /\ callResult = NoResponse
    /\ callFailure = NoExc
    /\ waits = <<>>

FacadeIdle == FacadeStart("idle")

\* The calls: get_task_annotation takes execution and fetch_all_executions,
\* the stats methods a specification with or without tests.
Calls ==
    {Call("get_task_annotation", e, f, "None") : e \in Executions, f \in FetchAlls}
    \cup {Call(m, "None", "None", t) :
              m \in CheckedMethods \ {"get_task_annotation"}, t \in Tests}

(***************************************************************************)
(* versions_by_project_time_window / patches_by_project_time_window: the   *)
(* lazy sequence of versions_by_project / patches_by_project handed to     *)
(* evergreen.util.iterate_by_time_window, which pulls it item by item.     *)
(***************************************************************************)

\* The values of before and after.
WindowTimes == {1, 2, 3}

WindowMethods == {"versions_by_project", "patches_by_project"}

\* getattr(item, time_attr), time_attr = "create_time": the Version / Patch
\* built from the item holds its create_time as a datetime.
TimeAttr(item) == CreateTime(item).t

\* A mutant of BreaksAt: the loop never stops early.
BreaksNever(t, after) == FALSE

\* iterate_by_time_window stops at an item strictly before after.
BreaksAt(t, after) == t < after

\* A mutant of SkipsAt: an item at before itself is produced.
SkipsAfterBefore(t, before) == t > before

\* iterate_by_time_window passes over an item at or after before.
SkipsAt(t, before) == t >= before

\* evergreen.util.iterate_by_time_window over the items pulled so far: what
\* it has produced.
RECURSIVE iterate_by_time_window(_, _, _)
iterate_by_time_window(items, before, after) ==
    IF items = <<>> THEN <<>>
    ELSE IF BreaksAt(TimeAttr(Head(items)), after) THEN <<>>
    ELSE IF SkipsAt(TimeAttr(Head(items)), before)
    THEN iterate_by_time_window(Tail(items), before, after)
    ELSE <<Head(items)>> \o iterate_by_time_window(Tail(items), before, after)

\* The loop of iterate_by_time_window has not stopped: none of the items it
\* has pulled made it break.
WindowRunning == \A i \in 1..Len(lzOut) : ~BreaksAt(TimeAttr(lzOut[i]), wAfter)

\* A call of one of the two methods: the lazy sequence and the filter over
\* it are created, nothing is pulled.
WindowCreate(via, cp) ==
    /\ via \in WindowMethods
    /\ LazyCreate(via, cp)

\* The filter pulls the next item, and the lazy sequence answers it ...
\* ... with a request that is answered,
WindowFetch == WindowRunning /\ LazyFetch

\* ... with a request that raises,
WindowFetchRaise == WindowRunning /\ LazyFetchRaise

\* ... from the page it holds,
WindowYield == WindowRunning /\ LazyYield

\* ... or by ending.
WindowStop == WindowRunning /\ LazyStop

WindowInit ==
    /\ wAfter \in WindowTimes
    /\ wBefore \in WindowTimes

WindowIdle ==
    /\ wAfter = 0
    /\ wBefore = 0

(***************************************************************************)
(* EvergreenApi.__init__, session, with_session, _create_session: the      *)
(* sessions of a handle ("orig") and of the handle its with_session yields *)
(* ("ws"), and the headers the requests of both are sent with.             *)
(***************************************************************************)

MaxAccesses == 3

SessionHandles == {"orig", "ws"}

\* An EvgAuth, or None.
Auth(username, api_key) == [username |-> username, api_key |-> api_key]
NoAuth == Auth("", "")
Auths == {NoAuth, Auth("user", "key")}

\* The headers of a new requests.Session().
DefaultHeaders == {<<"User-Agent", "python-requests">>}

\* {"Api-User": auth.username, "Api-Key": auth.api_key}
AuthHeaders(auth) == {<<"Api-User", auth.username>>, <<"Api-Key", auth.api_key>>}

\* A mutant of _create_session: the headers are never set.
CreateSessionBare(auth) == DefaultHeaders

\* _create_session: a new session; if auth: session.headers.update(...)
_create_session(auth) ==
    IF auth # NoAuth THEN DefaultHeaders \cup AuthHeaders(auth) ELSE DefaultHeaders

\* The sessions a caller may hand to the constructor: none, a new Session, or
\* a Session the caller has put the headers on.
SuppliedSessions == {<<>>, <<DefaultHeaders>>, <<DefaultHeaders \cup AuthHeaders(Auth("user", "key"))>>}

\* A mutant of WithSessionField: the new handle is given no session.
WithSessionFieldNone(sid) == 0

\* EvergreenApi(self._api_server, self._auth, self._timeout, session):
\* the _session of the handle with_session yields.
WithSessionField(sid) == sid

\* The session property: the shared session if there is one, else a new one
\* (fresh is the number the new session gets).
SessionOf(field, fresh) == IF field # 0 THEN field ELSE fresh

Access(handle, kind, session, headers) ==
    [handle |-> handle, kind |-> kind, session |-> session, headers |-> headers]

\* The class of the handle with_session builds, v being the class of the
\* handle it is called on: evg_api = EvergreenApi(...), whatever v is.
WithSessionVariant(v) == "base"

\* build_by_id and version_by_id are memoized on this class only.
HasCache(v) == v = "cached"

\* orig.with_session(): a session is created and a new handle built on it.
WithSession ==
    /\ ssField["ws"] = -1
    /\ ssSessions' = Append(ssSessions, _create_session(ssAuth))
    /\ ssField' = [ssField EXCEPT !["ws"] = WithSessionField(Len(ssSessions) + 1)]
    /\ ssVariant' = [ssVariant EXCEPT !["ws"] = WithSessionVariant(ssVariant["orig"])]
    /\ UNCHANGED <<ssAuth, ssLog, callVars, pgVars, cacheVars, lzVars, stVars, fcVars, wVars, thVars, rpVars>>

\* handle h reads its session property, for itself (kind "access") or to
\* send a request with it: session.request in _call_api ("call"),
\* session.get in _stream_api ("stream").
UseSession(h, kind) ==
    /\ ssField[h] # -1
    /\ Len(ssLog) < MaxAccesses
    /\ LET fresh == Len(ssSessions) + 1
           sid == SessionOf(ssField[h], fresh)
           all == IF sid = fresh THEN Append(ssSessions, _create_session(ssAuth))
                  ELSE ssSessions
       IN  /\ ssSessions' = all
           /\ ssLog' = Append(ssLog, Access(h, kind, sid, all[sid]))
    /\ UNCHANGED <<ssAuth, ssField, ssVariant, callVars, pgVars, cacheVars, lzVars, stVars, fcVars, wVars, thVars, rpVars>>

\* EvergreenApi(api_server, auth, timeout, session): the handle orig.
SessionInit ==
    /\ ssAuth \in Auths
    /\ ssSessions \in SuppliedSessions
    /\ ssField = [h \in SessionHandles |->
                      IF h = "ws" THEN -1 ELSE IF ssSessions = <<>> THEN 0 ELSE 1]
    /\ ssLog = <<>>
    /\ \E v \in Variants :
           /\ ssVariant = [h \in SessionHandles |-> IF h = "orig" THEN v ELSE "none"]
           \* CachedEvergreenApi and RetryingEvergreenApi take no session.
           /\ v # "base" => ssSessions = <<>>

SessionIdle ==
    /\ ssAuth = NoAuth
    /\ ssSessions = <<>>
    /\ ssField = [h \in SessionHandles |-> -1]
    /\ ssLog = <<>>
    /\ ssVariant = [h \in SessionHandles |-> "none"]

(***************************************************************************)
(* Threads that share one CachedEvergreenApi handle. A lookup is not one   *)
(* step: the wrapper of lru_cache looks the key up, and on a miss calls    *)
(* the wrapped function with no lock held, so that other threads run       *)
(* while the request is under way; it updates the table when the function  *)
(* has returned. Each access of the wrapper to its table is atomic.        *)
(***************************************************************************)

MaxThreadFetches == 3

Threads == {"t1", "t2"}
ThreadIds == {"id1", "id2"}

\* The one handle the threads share.
Shared == "A"

\* What a thread is doing: nothing, or waiting for the answer to the request
\* number n of a lookup of id in table t.
Pending(t, key, n) == [table |-> t, key |-> key, fetch |-> n]
NotPending == Pending("", NoKey, 0)

\* A thread in clear_caches that has cleared the first table and not yet the
\* second one.
Clearing == Pending("clear_caches", NoKey, 0)

Returned(id, entity) == [id |-> id, entity |-> entity]

\* The table when the wrapped function has returned: if another thread has
\* stored the key in the meantime the table is left as it is, else the
\* result is stored.
StoredOnce(c, key, entity) ==
    IF key \in CacheKeys(c) THEN c ELSE Insert(c, key, entity)

\* Thread th calls build_by_id / version_by_id with id, by position or by
\* name: a hit returns the entry, a miss issues the request.
ThreadLookup(th, t, form, id) ==
    LET key == MakeKey(t, Shared, form, id)
    IN  /\ thPc[th] = NotPending
        /\ IF key \in CacheKeys(thCache[t])
           THEN /\ thCache' = [thCache EXCEPT ![t] = Touch(@, key)]
                /\ thRet' = [thRet EXCEPT ![th] = Returned(id, CacheGet(thCache[t], key))]
                /\ UNCHANGED <<thPc, thFetches>>
           ELSE /\ thFetches < MaxThreadFetches
                /\ thFetches' = thFetches + 1
                /\ thPc' = [thPc EXCEPT ![th] = Pending(t, key, thFetches + 1)]
                /\ UNCHANGED <<thCache, thRet>>
        /\ UNCHANGED <<callVars, pgVars, cacheVars, lzVars, stVars, fcVars, wVars, ssVars, rpVars>>

\* The request of thread th is answered: the wrapped function returns the
\* entity (ok) and the wrapper stores it, or it raises.
ThreadReturn(th, ok) ==
    /\ thPc[th] \notin {NotPending, Clearing}
    /\ LET p == thPc[th]
           entity == IF ok THEN Entity(Shared, IdOf(p.key), p.fetch) ELSE NoEntity
       IN  /\ thCache' = IF ok
                         THEN [thCache EXCEPT ![p.table] = StoredOnce(@, p.key, entity)]
                         ELSE thCache
           /\ thRet' = [thRet EXCEPT ![th] = Returned(IdOf(p.key), entity)]
    /\ thPc' = [thPc EXCEPT ![th] = NotPending]
    /\ UNCHANGED <<thFetches, callVars, pgVars, cacheVars, lzVars, stVars, fcVars, wVars, ssVars, rpVars>>

\* Thread th calls clear_caches(): the loop over cached_functions clears
\* build_by_id first. Other threads run before it clears version_by_id.
ThreadClear(th) ==
    /\ thPc[th] = NotPending
    /\ thCache' = [thCache EXCEPT !["build_by_id"] = <<>>]
    /\ thPc' = [thPc EXCEPT ![th] = Clearing]
    /\ UNCHANGED <<thRet, thFetches, callVars, pgVars, cacheVars, lzVars, stVars, fcVars, wVars, ssVars, rpVars>>

\* The loop of clear_caches in thread th clears version_by_id and ends.
ThreadClearEnd(th) ==
    /\ thPc[th] = Clearing
    /\ thCache' = [thCache EXCEPT !["version_by_id"] = <<>>]
    /\ thPc' = [thPc EXCEPT ![th] = NotPending]
    /\ thRet' = [thRet EXCEPT ![th] = Returned("clear_caches", NoEntity)]
    /\ UNCHANGED <<thFetches, callVars, pgVars, cacheVars, lzVars, stVars, fcVars, wVars, ssVars, rpVars>>

ThreadsStart(n) ==
    /\ thCache = [t \in Tables |-> <<>>]
    /\ thPc = [th \in Threads |-> NotPending]
    /\ thRet = [th \in Threads |-> Returned("", NoEntity)]
    /\ thFetches = n

ThreadsInit == ThreadsStart(0)
ThreadsIdle == ThreadsStart(-1)

(***************************************************************************)
(* A paginated operation whose page requests are calls of _call_api with   *)
(* their attempts: _paginate, _lazy_paginate and _lazy_paginate_by_date    *)
(* call self._call_api once for every page, and on RetryingEvergreenApi    *)
(* every such call runs under the retry decorator.                         *)
(***************************************************************************)

\* What session.request does in an attempt of a page request: an answer
\* whose body is a JSON list (the page, which response.json() parses), a 500
\* whose body is not JSON, or a refused connection.
PageOutcomes ==
    {out \in TransportOutcomes :
        \/ out.exc = ConnectionError
        \/ out.exc = NoExc /\ out.resp = Response(200, JsonBody("array", {}, <<>>, ""))
        \/ out.exc = NoExc /\ out.resp = Response(500, JsonBody("notjson", {}, <<>>, ""))}

\* A mutant of FreshAttempts: the attempts of the earlier calls count on.
CarriedAttempts(log) == log

\* The retry decorator starts every call of _call_api with a state of its
\* own: the attempts of the calls before it are not counted.
FreshAttempts(log) == <<>>

\* The operation is at a self._call_api(...): _paginate at its start or in
\* its loop, a lazy sequence at a pull that needs a page.
RequestDue ==
    \/ pgPc \in {"start", "looping"} /\ Len(pgRequests) = rpCalls
    \/ PullRequests /\ Len(lzRequests) = rpCalls

\* The operation reaches self._call_api(...): the call for the next page begins.
PageCall ==
    /\ RequestDue
    /\ callPc \in {"idle", "returned"}
    /\ rpCalls' = rpCalls + 1
    /\ rpDone' = IF rpCalls = 0 THEN rpDone ELSE Append(rpDone, Len(attempts))
    /\ callPc' = "calling"
    /\ attempts' = FreshAttempts(attempts)
    /\ callResult' = NoResponse
    /\ callFailure' = NoExc
    /\ waits' = <<>>
    /\ UNCHANGED <<variant, pgVars, cacheVars, lzVars, stVars, fcVars, wVars, ssVars, thVars>>

\* The call returned: _paginate takes the page of the response.
PageAnswer ==
    /\ callPc = "returned"
    /\ Len(pgRequests) < rpCalls
    /\ PaginateFirst \/ PaginateNext

\* The call raised: the exception leaves _paginate.
PageRaise ==
    /\ callPc = "raised"
    /\ Len(pgRequests) < rpCalls
    /\ PaginateRaise

\* iterate / iterate_by_date: the sequence is created with no params.
PagesCreate(via) ==
    /\ via \in {"_lazy_paginate", "_lazy_paginate_by_date"}
    /\ LazyCreate(via, LzNone)

\* The call returned: the generator takes the page and produces its first item.
PagesFetch ==
    /\ callPc = "returned"
    /\ Len(lzRequests) < rpCalls
    /\ LazyFetch

\* The call raised: the exception leaves the generator.
PagesFetchRaise ==
    /\ callPc = "raised"
    /\ Len(lzRequests) < rpCalls
    /\ LazyFetchRaise

PagesStart(n) ==
    /\ rpCalls = n
    /\ rpDone = <<>>

\* A handle with or without the retry decorator, and a call of _paginate on
\* it or a lazy sequence to be created on it (over one or two pages).
PagesInit ==
    /\ PagesStart(0)
    /\ \/ PaginateInit /\ LazyIdle /\ pgParams \in {NoneParams, Params(TRUE, {"limit"}, 2)}
       \/ LazyInit /\ Len(server) <= 2
    /\ variant \in {"base", "retrying"}
    /\ callPc = "idle"
    /\ attempts = <<>>
    /\ callResult = NoResponse
    /\ callFailure = NoExc
    /\ waits = <<>>

PagesIdle == PagesStart(-1)

(***************************************************************************)
(* The specifications.                                                     *)
(***************************************************************************)

InitCall == CallInit /\ PaginateIdle /\ CacheIdle /\ LazyIdle /\ StreamIdle /\ FacadeIdle /\ WindowIdle /\ SessionIdle /\ ThreadsIdle /\ PagesIdle

NextCall == \E out \in TransportOutcomes : Attempt(out)

SpecCall == InitCall /\ [][NextCall]_vars

InitPaginate == CallIdle /\ PaginateInit /\ CacheIdle /\ LazyIdle /\ StreamIdle /\ FacadeIdle /\ WindowIdle /\ SessionIdle /\ ThreadsIdle /\ PagesIdle

NextPaginate == PaginateFirst \/ PaginateNext \/ PaginateRaise

SpecPaginate == InitPaginate /\ [][NextPaginate]_vars

InitCache == CallIdle /\ PaginateIdle /\ CacheInit /\ LazyIdle /\ StreamIdle /\ FacadeIdle /\ WindowIdle /\ SessionIdle /\ ThreadsIdle /\ PagesIdle

NextCache ==
    \/ \E t \in Tables, c \in Callers, id \in Ids, ok \in BOOLEAN :
           Lookup(t, c[1], c[2], id, ok)
    \/ \E h \in Handles : ClearCaches(h)

SpecCache == InitCache /\ [][NextCache]_vars

InitLazy == CallIdle /\ CacheIdle /\ LazyInit /\ StreamIdle /\ FacadeIdle /\ WindowIdle /\ SessionIdle /\ ThreadsIdle /\ PagesIdle

NextLazy ==
    \/ \E via \in LazyMethods, cp \in CallerParams : LazyCreate(via, cp)
    \/ LazyFetch
    \/ LazyFetchRaise
    \/ LazyYield
    \/ LazyStop

SpecLazy == InitLazy /\ [][NextLazy]_vars

InitStream == StreamInit /\ PaginateIdle /\ CacheIdle /\ LazyIdle /\ FacadeIdle /\ WindowIdle /\ SessionIdle /\ ThreadsIdle /\ PagesIdle

NextStream ==
    \/ StreamCreate
    \/ StreamConnectRaise
    \/ \E res \in Responses, lines \in LineSeqs : StreamOpen(res, lines)
    \/ StreamNext
    \/ \E res \in Responses, lines \in LineSeqs, k \in 0..MaxLines, exc \in ReadFailures :
           StreamReadRaise(res, lines, k, exc)
    \/ StreamClose

SpecStream == InitStream /\ [][NextStream]_vars

InitFacade == FacadeInit /\ PaginateIdle /\ CacheIdle /\ LazyIdle /\ StreamIdle /\ WindowIdle /\ SessionIdle /\ ThreadsIdle /\ PagesIdle

NextFacade ==
    \/ \E c \in Calls : FacadeCall(c)
    \/ \E activated \in Activateds, priority \in Priorities : ConfigureTask(activated, priority)
    \/ \E op \in TaskChanges : ChangeTask(op)
    \/ \E variants \in VariantLists, description \in Descriptions :
           ConfigurePatch(variants, description)
    \/ \E out \in TransportOutcomes : Attempt(out)
    \/ PaginateFirst
    \/ PaginateNext
    \/ PaginateRaise

SpecFacade == InitFacade /\ [][NextFacade]_vars

InitWindow == CallIdle /\ CacheIdle /\ LazyInit /\ StreamIdle /\ FacadeIdle /\ WindowInit /\ SessionIdle /\ ThreadsIdle /\ PagesIdle

NextWindow ==
    \/ \E via \in WindowMethods, cp \in CallerParams : WindowCreate(via, cp)
    \/ WindowFetch
    \/ WindowFetchRaise
    \/ WindowYield
    \/ WindowStop

SpecWindow == InitWindow /\ [][NextWindow]_vars

InitSession ==
    CallIdle /\ PaginateIdle /\ CacheIdle /\ LazyIdle /\ StreamIdle /\ FacadeIdle
        /\ WindowIdle /\ SessionInit /\ ThreadsIdle /\ PagesIdle

NextSession ==
    \/ WithSession
    \/ \E h \in SessionHandles, kind \in {"access", "call", "stream"} : UseSession(h, kind)

SpecSession == InitSession /\ [][NextSession]_vars

InitPages ==
    CacheIdle /\ StreamIdle /\ FacadeIdle /\ WindowIdle /\ SessionIdle
        /\ ThreadsIdle /\ PagesInit

NextPages ==
    \/ PageCall
    \/ \E out \in PageOutcomes : Attempt(out)
    \/ PageAnswer
    \/ PageRaise
    \/ \E via \in LazyMethods : PagesCreate(via)
    \/ PagesFetch
    \/ PagesFetchRaise
    \/ LazyYield
    \/ LazyStop

SpecPages == InitPages /\ [][NextPages]_vars

InitEndless ==
    CallIdle /\ CacheIdle /\ LazyIdle /\ StreamIdle /\ FacadeIdle /\ WindowIdle
        /\ SessionIdle /\ ThreadsIdle /\ EndlessInit /\ PagesIdle

NextEndless ==
    \/ PaginateFirst
    \/ EndlessNext
    \/ PaginateRaise

SpecEndless == InitEndless /\ [][NextEndless]_vars

InitThreads ==
    CallIdle /\ PaginateIdle /\ CacheIdle /\ LazyIdle /\ StreamIdle /\ FacadeIdle
        /\ WindowIdle /\ SessionIdle /\ ThreadsInit /\ PagesIdle

NextThreads ==
    \/ \E th \in Threads, t \in Tables, form \in Forms, id \in ThreadIds :
           ThreadLookup(th, t, form, id)
    \/ \E th \in Threads, ok \in BOOLEAN : ThreadReturn(th, ok)
    \/ \E th \in Threads : ThreadClear(th)
    \/ \E th \in Threads : ThreadClearEnd(th)

SpecThreads == InitThreads /\ [][NextThreads]_vars

(***************************************************************************)
(* The claims about _call_api (checked under SpecCall).                    *)
(***************************************************************************)

\* The body of the response is a JSON object with an `error` field.
HasErrorField(resp) == resp.body.kind = "object" /\ "error" \in resp.body.keys

\* The attempt got a response with a status of 400 or above.
ErrorStatus(a) == a.resp # NoResponse /\ a.resp.status >= 400

\* The attempt failed with an HTTP-status failure or a connection failure.
FailedRetryable(a) == a.exc.kind \in {"HTTPError", "ConnectionError"}

\* The attempt failed with a failure of another kind.
FailedOther(a) == a.exc # NoExc /\ ~FailedRetryable(a)

\* C1: a response with status >= 400 whose JSON body has an `error` field makes
\* the attempt fail with an HTTP-status failure whose message is the value of
\* that field, without any call of response.raise_for_status(); that failure
\* is the failure of the call (on the retrying variant: unless the attempt is
\* retried).
C1_JsonErrorIsTheMessage ==
    \A i \in 1..Len(attempts) :
        LET a == attempts[i]
        IN  (ErrorStatus(a) /\ HasErrorField(a.resp)) =>
                /\ a.exc = Exc("HTTPError", a.resp.body.error, a.resp.status)
                /\ a.rfs = 0
                /\ variant # "retrying" => (callPc = "raised" /\ callFailure = a.exc)
                /\ (variant = "retrying" /\ i = Len(attempts)) =>
                       \/ callPc = "calling" /\ i < MAX_RETRIES
                       \/ callPc = "raised" /\ callFailure = a.exc

C1_Witness ==
    /\ variant = "base" /\ callPc = "raised" /\ Len(attempts) = 1
    /\ attempts[1].resp.status = 500 /\ HasErrorField(attempts[1].resp)
    /\ callFailure.msg = "msg two"

\* C2: a response with status >= 400 whose body is not JSON, or is any JSON
\* value without an `error` field, makes the attempt fail with the generic
\* HTTP-status failure of response.raise_for_status(), never with a failure
\* of another kind.
C2_GenericFailureNeverMasked ==
    \A i \in 1..Len(attempts) :
        LET a == attempts[i]
        IN  (ErrorStatus(a) /\ ~HasErrorField(a.resp)) =>
                /\ a.exc = Exc("HTTPError", GenericMsg, a.resp.status)
                /\ a.rfs = 1

\* C3: on the retrying variant, when the first k-1 attempts fail with HTTP-status
\* or connection failures and attempt k (k <= 3) succeeds, the call returns the
\* response of attempt k, k requests having been issued; and as long as fewer
\* than 3 attempts have been made and all failed that way, the call goes on.
C3_ReturnsAfterKRequests ==
    variant = "retrying" =>
        LET k == Len(attempts)
        IN  (k >= 1 /\ \A i \in 1..(k - 1) : FailedRetryable(attempts[i])) =>
                /\ attempts[k].exc = NoExc =>
                       /\ callPc = "returned"
                       /\ callResult = attempts[k].resp
                       /\ k <= MAX_RETRIES
                /\ (FailedRetryable(attempts[k]) /\ k < MAX_RETRIES) => callPc = "calling"
                /\ callPc = "returned" => attempts[k].exc = NoExc

C3_Witness ==
    /\ variant = "retrying" /\ callPc = "returned" /\ Len(attempts) = 3
    /\ attempts[1].exc.kind = "HTTPError" /\ attempts[2].exc.kind = "ConnectionError"
    /\ callResult = attempts[3].resp

\* C4: on the retrying variant, three consecutive attempts that fail with
\* HTTP-status or connection failures make the call raise the failure of the
\* third attempt itself, and a call never issues a 4th request.
C4_ThirdFailureIsRaised ==
    variant = "retrying" =>
        /\ Len(attempts) <= MAX_RETRIES
        /\ (Len(attempts) = MAX_RETRIES
              /\ \A i \in 1..MAX_RETRIES : FailedRetryable(attempts[i])) =>
                 (callPc = "raised" /\ callFailure = attempts[MAX_RETRIES].exc)

C4_Witness ==
    /\ variant = "retrying" /\ callPc = "raised" /\ Len(attempts) = 3
    /\ \A i \in 1..3 : FailedRetryable(attempts[i])
    /\ attempts[1].exc # attempts[3].exc /\ attempts[2].exc # attempts[3].exc
    /\ attempts[1].exc # attempts[2].exc

\* C5 as stated: on the retrying variant, an attempt that fails with a failure
\* of another kind makes the call raise that failure, exactly 1 request having
\* been issued.
C5_OtherFailureAfterOneRequest ==
    variant = "retrying" =>
        \A i \in 1..Len(attempts) :
            FailedOther(attempts[i]) =>
                /\ callPc = "raised" /\ callFailure = attempts[i].exc
                /\ Len(attempts) = 1

\* C5 as amended: on the retrying variant, an attempt that fails with a failure
\* of another kind makes the call raise that failure with no request after it:
\* attempt n failing that way leaves exactly n requests issued, exactly 1 when
\* it is the first attempt.
C5_OtherFailureIsNotRetried ==
    variant = "retrying" =>
        \A i \in 1..Len(attempts) :
            FailedOther(attempts[i]) =>
                /\ callPc = "raised" /\ callFailure = attempts[i].exc
                /\ Len(attempts) = i

C5_Witness ==
    /\ variant = "retrying" /\ callPc = "raised" /\ Len(attempts) = 1
    /\ attempts[1].exc = ValueError /\ callFailure = ValueError

(***************************************************************************)
(* The claims about the cached variant (checked under SpecCache).          *)
(***************************************************************************)

\* The last operation was a successful lookup of the probe.
ProbeLookedUp ==
    /\ lastOp.op = "lookup" /\ lastOp.ok
    /\ lastOp.table = probe.table
    /\ Ident(lastOp.key) = <<probe.handle, probe.id>>

\* C6: the successful lookups of one identifier on one handle through one
\* table, since the last clear_caches and with fewer than CACHE_SIZE other
\* identifiers looked up through that table since the first of them, have issued
\* exactly one network request in total, and each returned the entity built
\* from the answer to that request.
C6_OneRequestForRepeatedLookups ==
    (ProbeLookedUp /\ Cardinality(run.others) < CACHE_SIZE) =>
        /\ run.reqs = 1
        /\ lastOp.entity = run.ent
        /\ run.ent.id = probe.id /\ run.ent.handle = probe.handle
        /\ run.ent.fetch >= 1

\* C7: after clear_caches both tables are empty, in every outcome, and the
\* lookup that follows a clear_caches issues a network request.
C7_ClearCachesEmptiesBothTables ==
    /\ [](lastOp.op = "clear" => \A t \in Tables : cache[t] = <<>>)
    /\ [][(lastOp.op = "clear" /\ lastOp'.op = "lookup") => lastOp'.fetched]_vars

C7_Witness ==
    /\ lastOp.op = "clear" /\ fetches >= 2
    /\ \A t \in Tables : cache[t] = <<>>

(***************************************************************************)
(* The claims about _paginate (checked under SpecPaginate).                *)
(***************************************************************************)

NumPages == Len(server)

\* The items of pages 1..n of the chain, in server order.
RECURSIVE ConcatPages(_)
ConcatPages(n) == IF n = 0 THEN <<>> ELSE ConcatPages(n - 1) \o server[n].items

\* C8: without a limit, _paginate returns the items of all the pages of the
\* chain in server order, an empty intermediate page included in the walk,
\* and has issued one request per page, in chain order.
C8_AllPagesWithoutLimit ==
    (pgPc = "returned" /\ ~HasLimit(pgParams)) =>
        /\ pgData = ConcatPages(NumPages)
        /\ Len(pgRequests) = NumPages
        /\ \A i \in 1..NumPages : pgRequests[i].url = i

C8_Witness ==
    /\ pgPc = "returned" /\ ~HasLimit(pgParams) /\ NumPages = 3
    /\ server[1].items # <<>> /\ server[2].items = <<>> /\ server[3].items # <<>>
    /\ Len(pgRequests) = 3 /\ pgData = server[1].items \o server[3].items

\* C9: with params.limit = K, once a response has been received: when the
\* number of accumulated items is >= K no further request is issued, next link
\* or not; when it is below K and the last response carries a next link, the
\* next page is requested.
C9_LimitStopsTheRequests ==
    (HasLimit(pgParams) /\ pgResponse # 0) =>
        /\ Len(pgData) >= pgParams.limit => pgPc = "returned"
        /\ (Len(pgData) < pgParams.limit /\ HasNext(pgResponse)) =>
               pgPc \in {"looping", "raised"}
        /\ pgPc = "raised" => (Len(pgData) < pgParams.limit /\ HasNext(pgResponse))
        /\ Len(pgRequests) = pgResponse + (IF pgPc = "raised" THEN 1 ELSE 0)

C9_Witness ==
    /\ pgPc = "returned" /\ HasLimit(pgParams) /\ Len(pgRequests) = 2
    /\ Len(pgData) >= pgParams.limit /\ HasNext(pgResponse)
    /\ Len(server[1].items) < pgParams.limit

\* C10 as stated: with params.limit = K smaller than the number of items of
\* the whole chain, _paginate issues fewer requests than the chain has pages
\* (stated here for K >= 1 and chains of at least two pages, where a run with
\* fewer requests than pages exists at all).
C10_FewerRequestsThanPages ==
    (pgPc = "returned" /\ HasLimit(pgParams)
       /\ NumPages >= 2 /\ pgParams.limit >= 1
       /\ pgParams.limit < Len(ConcatPages(NumPages))) =>
        Len(pgRequests) < NumPages

\* C10 as amended: with params.limit = K, on a chain of at least two pages and
\* with K no larger than the number of items of the pages before the last
\* one, _paginate issues fewer requests than the chain has pages; in every
\* case it issues no more requests than the chain has pages.
C10_FewerRequestsWhenLimitBeforeLastPage ==
    (pgPc = "returned" /\ HasLimit(pgParams)) =>
        /\ Len(pgRequests) <= NumPages
        /\ (NumPages >= 2 /\ pgParams.limit <= Len(ConcatPages(NumPages - 1))) =>
               Len(pgRequests) < NumPages

C10_Witness ==
    /\ pgPc = "returned" /\ HasLimit(pgParams) /\ NumPages = 3
    /\ pgParams.limit <= Len(ConcatPages(2)) /\ pgParams.limit > Len(ConcatPages(1))
    /\ Len(pgRequests) = 2

(***************************************************************************)
(* The lazy sequences.                                                     *)
(***************************************************************************)

LazyLink == lzPc # "none" /\ lzPc # "idle" /\ KindOf(lzVia) = "link"
LazyDate == lzPc # "none" /\ lzPc # "idle" /\ KindOf(lzVia) = "date"

\* Every page of the chain holds exactly size items.
UniformPages(size) == \A u \in 1..NumPages : Len(server[u].items) = size

\* The first empty page of the server, NumPages + 1 when there is none.
FirstEmptyPage ==
    LET empties == {u \in 1..NumPages : server[u].items = <<>>}
    IN  IF empties = {} THEN NumPages + 1
        ELSE CHOOSE u \in empties : \A v \in empties : u <= v

\* C11: over a chain whose pages all hold page_size >= 1 items, after M items
\* have been pulled from _lazy_paginate at most ceil(M / page_size) requests
\* have been issued; so the pull of the last item of a page issues none.
C11_RequestsFollowThePulls ==
    \A size \in 1..MaxPageLen :
        (LazyLink /\ lzPc # "raised" /\ UniformPages(size)) =>
            Len(lzRequests) * size < Len(lzOut) + size

C11_Witness ==
    /\ LazyLink /\ lzPc = "suspended" /\ UniformPages(2)
    /\ Len(lzOut) = 2 /\ HasNext(lzUrl)
    /\ Len(lzRequests) = 1

\* C12: creating a lazy sequence, with _lazy_paginate, _lazy_paginate_by_date
\* or one of the methods built on them, issues no request; the requests start
\* with the first pull.
C12_CreationIssuesNoRequest ==
    /\ lzPc = "created" => lzRequests = <<>>
    /\ lzRequests # <<>> => lzPc \in {"suspended", "done", "raised"}

C12_Witness ==
    /\ lzPc = "created" /\ lzVia = "patches_by_user"
    /\ NumPages >= 2 /\ server[1].items # <<>>

\* C13: a _lazy_paginate sequence consumed to its end has produced the items
\* of pages 1..j in order, each once, j being the first page without a next
\* link or the page before the first empty page, whichever comes first; an
\* empty page ends the sequence even when it carries a next link, and no
\* request follows it.
C13_LazyPaginateProducesThePages ==
    (LazyLink /\ lzPc = "done") =>
        LET r == IF FirstEmptyPage <= NumPages THEN FirstEmptyPage ELSE NumPages
            j == IF FirstEmptyPage <= NumPages THEN FirstEmptyPage - 1 ELSE NumPages
        IN  /\ lzOut = ConcatPages(j)
            /\ Len(lzRequests) = r
            /\ \A i \in 1..r : lzRequests[i].url = i

C13_Witness ==
    /\ LazyLink /\ lzPc = "done"
    /\ NumPages = 3 /\ FirstEmptyPage = 2
    /\ server[1].items # <<>> /\ server[3].items # <<>>
    /\ Len(lzRequests) = 2

\* The request carries a start_at parameter.
HasStartAt(req) == "start_at" \in req.params.keys

\* C14: in _lazy_paginate_by_date, the request that follows a non-empty page n
\* goes to the same url with start_at set to the normalized create_time of
\* the last item of page n, every other parameter as on request n.
C14_NextRequestStartsAtLastItem ==
    LazyDate =>
        \A n \in 1..(Len(lzRequests) - 1) :
            LET this == lzRequests[n]
                next == lzRequests[n + 1]
                page == DatePage(n)
            IN  /\ next.url = this.url
                /\ HasStartAt(next)
                /\ next.params.start_at =
                       evergreen_input_to_output(CreateTime(page[Len(page)]))
                /\ next.params.keys \ {"start_at"} = this.params.keys \ {"start_at"}
                /\ next.params.limit = this.params.limit

C14_Witness ==
    /\ LazyDate /\ Len(lzRequests) = 3
    /\ HasStartAt(lzRequests[1]) /\ lzRequests[1].params.limit = 2
    /\ Len(DatePage(1)) = 2 /\ Len(DatePage(2)) = 2
    /\ lzRequests[2].params.start_at # lzRequests[1].params.start_at
    /\ lzRequests[3].params.start_at # lzRequests[2].params.start_at

\* C15: a _lazy_paginate_by_date sequence ends exactly at the first empty
\* page: consumed to its end it has issued one request per page up to and
\* including the first empty one, has produced every item of the pages before
\* it, and has requested no page after it.
C15_ByDateEndsAtFirstEmptyPage ==
    LazyDate =>
        /\ Len(lzRequests) <= FirstEmptyPage
        /\ lzPc = "done" =>
               /\ Len(lzRequests) = FirstEmptyPage
               /\ lzOut = ConcatPages(FirstEmptyPage - 1)

C15_Witness ==
    /\ LazyDate /\ lzPc = "done"
    /\ NumPages = 3 /\ FirstEmptyPage = 2
    /\ Len(server[1].items) = 2 /\ server[3].items # <<>>
    /\ Len(lzRequests) = 2 /\ lzOut = server[1].items

\* The server answers a start_at query with items at or beyond that timestamp.
AnswersAtOrBeyond ==
    \A n \in 1..Len(lzRequests) :
        HasStartAt(lzRequests[n]) =>
            \A i \in 1..Len(DatePage(n)) :
                CreateTime(DatePage(n)[i]).t >= lzRequests[n].params.start_at.t

\* C16: against a server that answers a start_at query with the items at or
\* beyond that timestamp, the start_at of request n+1 is never equal to the
\* start_at of request n (read here for the requests whose start_at the
\* sequence computed itself, n >= 2).
C16_CursorAdvancesStrictly ==
    (LazyDate /\ AnswersAtOrBeyond) =>
        \A n \in 2..(Len(lzRequests) - 1) :
            ~(/\ HasStartAt(lzRequests[n])
              /\ HasStartAt(lzRequests[n + 1])
              /\ lzRequests[n + 1].params.start_at = lzRequests[n].params.start_at)

\* The page the i-th request was answered with.
FetchedPage(i) ==
    IF KindOf(lzVia) = "link" THEN server[lzRequests[i].url].items ELSE DatePage(i)

\* The items of the pages the first n requests were answered with.
RECURSIVE ConcatFetched(_)
ConcatFetched(n) == IF n = 0 THEN <<>> ELSE ConcatFetched(n - 1) \o FetchedPage(n)

\* C17: a lazy sequence holds at most one fetched page; request n+1 is issued
\* only after every item of page n has been produced, and page n is not kept
\* once page n+1 is fetched.
C17_OnePageHeld ==
    (LazyLink \/ LazyDate) =>
        LET n == Len(lzRequests)
        IN  /\ Len(lzBuf) <= 1
            /\ lzPc = "suspended" =>
                   /\ lzBuf = <<FetchedPage(n)>>
                   /\ lzOut = ConcatFetched(n - 1) \o SubSeq(FetchedPage(n), 1, lzIdx)
            /\ lzPc = "raised" => lzOut = ConcatFetched(n - 1)

C17_Witness ==
    /\ lzPc = "suspended" /\ Len(lzRequests) = 2
    /\ Len(FetchedPage(1)) = 2 /\ Len(FetchedPage(2)) = 2
    /\ lzIdx = 1 /\ Len(lzOut) = 3

(***************************************************************************)
(* The log stream.                                                         *)
(***************************************************************************)

\* The connection behind the response: the transport gives it back when the
\* body has been read to its end, and at the latest when the response is
\* closed.
PoolConnection ==
    IF stConn = "none" THEN "none"
    ELSE IF stConn = "held" /\ stRead < Len(stLines) THEN "held"
    ELSE "released"

\* C18: the connection of a streamed response is released on every exit of
\* _stream_api: after the last line, when the status classification (or the
\* read of the body) raises, and when the consumer closes the generator
\* early: a stream that is finished or closed has its response closed and
\* holds no connection.
C18_StreamReleasesTheConnection ==
    stPc \in {"done", "raised", "closed"} =>
        /\ stConn # "held"
        /\ PoolConnection # "held"
        /\ stRes # NoResponse => stConn = "released"

C18_Witness ==
    /\ stPc = "closed" /\ stConn = "released"
    /\ Len(stOut) = 1 /\ Len(stLines) = 2

(***************************************************************************)
(* The argument checks, and the variants that do not retry.                *)
(***************************************************************************)

\* C19: get_task_annotation given both execution and fetch_all_executions,
\* and task_stats_by_project / task_reliability_by_project given a stats
\* specification that sets tests, raise the argument failure without issuing
\* a request, on the base, the cached and the retrying variant alike.
C19_ArgumentFailureBeforeAnyRequest ==
    LET both == /\ fcCall.method = "get_task_annotation"
                /\ fcCall.execution # "None"
                /\ fcCall.fetch_all_executions # "None"
        tests == /\ fcCall.method \in {"task_stats_by_project", "task_reliability_by_project"}
                 /\ fcCall.tests # "None"
    IN  (both \/ tests) =>
            /\ fcPc = "raised"
            /\ fcFailure.kind = "ValueError"
            /\ attempts = <<>>
            /\ pgRequests = <<>>

C19_Witness ==
    /\ fcPc = "raised" /\ variant = "retrying"
    /\ fcCall.method = "get_task_annotation"
    /\ fcCall.execution = "0" /\ fcCall.fetch_all_executions = "False"

\* C20: on the variants that do not retry (EvergreenApi, CachedEvergreenApi)
\* a failure of any kind in _call_api reaches the caller after exactly one
\* request.
C20_NoRetryWithoutTheDecorator ==
    (variant \in {"base", "cached"} /\ attempts # <<>> /\ attempts[1].exc # NoExc) =>
        /\ callPc = "raised"
        /\ callFailure = attempts[1].exc
        /\ Len(attempts) = 1

C20_Witness ==
    /\ variant = "cached" /\ callPc = "raised"
    /\ callFailure = ConnectionError
    /\ Len(attempts) = 1

(***************************************************************************)
(* The retry decorator: what it wraps and how long it waits.               *)
(***************************************************************************)

\* C21: on the retrying variant a streaming request that fails with an
\* HTTP-status or connection failure is attempted exactly once and the
\* failure reaches the consumer: the retry wraps _call_api only.
C21_StreamIsNotRetried ==
    /\ Len(stRequests) <= 1
    /\ (/\ variant = "retrying"
        /\ stRequests # <<>>
        /\ stPc \notin {"suspended", "done", "closed"}) =>
           /\ stPc = "raised"
           /\ Len(stRequests) = 1
           /\ stFailure # NoExc

C21_Witness ==
    /\ variant = "retrying" /\ stPc = "raised"
    /\ stFailure.kind = "HTTPError" /\ stOut = <<>>
    /\ Len(stRequests) = 1

\* C22: on the retrying variant the wait between attempt n and attempt n+1
\* is at least START_WAIT_TIME_SEC and at most MAX_WAIT_TIME_SEC, the waits
\* do not decrease with n, and there is no wait before the first attempt or
\* after the last one (one wait between two consecutive attempts, no other).
C22_WaitsBetweenAttempts ==
    /\ Len(waits) = IF callPc = "calling" THEN Len(attempts)
                    ELSE IF attempts = <<>> THEN 0 ELSE Len(attempts) - 1
    /\ \A i \in 1..Len(waits) :
           /\ START_WAIT_TIME_SEC <= waits[i]
           /\ waits[i] <= MAX_WAIT_TIME_SEC
    /\ \A i \in 1..(Len(waits) - 1) : waits[i] <= waits[i + 1]
    /\ variant # "retrying" => waits = <<>>

C22_Witness ==
    /\ variant = "retrying" /\ callPc = "raised"
    /\ Len(attempts) = MAX_RETRIES /\ Len(waits) = MAX_RETRIES - 1

(***************************************************************************)
(* The capacity of the memoization tables and whom they belong to.         *)
(***************************************************************************)

\* The keys the probe's table has dropped since the last clear_caches.
Evicted == {uses[i] : i \in DOMAIN uses} \ CacheKeys(cache[probe.table])

\* Of the keys the probe's table holds, the one whose last use is the oldest.
LeastRecentlyUsed ==
    LET held == {i \in DOMAIN uses : uses[i] \in CacheKeys(cache[probe.table])}
    IN  uses[CHOOSE i \in held : \A j \in held : i <= j]

\* The identifiers (with their handle) the probe's table holds, and those it
\* has dropped an entry of since the last clear_caches.
HeldIdents == {Ident(k) : k \in CacheKeys(cache[probe.table])}
EvictedIdents == {Ident(k) : k \in Evicted}

\* C23: a memoization table never holds more than CACHE_SIZE entries; a
\* lookup of a new identifier while the table is full drops exactly the entry
\* whose last use (hits included) is the oldest and keeps every other entry;
\* a later lookup of a dropped identifier issues a new request.
C23_LeastRecentlyUsedIsEvicted ==
    /\ [](\A t \in Tables : Len(cache[t]) <= CACHE_SIZE)
    /\ [][(/\ lastOp'.op = "lookup" /\ lastOp'.table = probe.table
           /\ lastOp'.ok /\ Ident(lastOp'.key) \notin HeldIdents
           /\ Len(cache[probe.table]) = CACHE_SIZE) =>
              LET kept == CacheKeys(cache[probe.table]) \ {LeastRecentlyUsed}
              IN  /\ CacheKeys(cache'[probe.table]) = kept \cup {lastOp'.key}
                  /\ \A k \in kept : CacheGet(cache'[probe.table], k)
                                         = CacheGet(cache[probe.table], k)]_vars
    /\ [][(/\ lastOp'.op = "lookup" /\ lastOp'.table = probe.table
           /\ Ident(lastOp'.key) \in EvictedIdents) =>
              (lastOp'.fetched /\ fetches' = fetches + 1)]_vars

\* C24: an operation on one cached handle never removes an entry cached
\* through another cached handle: the table belongs to the handle.
C24_TableBelongsToOneHandle ==
    [][\A t \in Tables : \A k \in CacheKeys(cache[t]) :
           HandleOf(k) # HandleOf(lastOp'.key) => k \in CacheKeys(cache'[t])]_vars

(***************************************************************************)
(* The time windows.                                                       *)
(***************************************************************************)

\* Everything the lazy sequence would deliver if it were consumed to its end.
Delivered ==
    IF KindOf(lzVia) = "link"
    THEN ConcatPages(IF FirstEmptyPage <= NumPages THEN FirstEmptyPage - 1 ELSE NumPages)
    ELSE ConcatPages(FirstEmptyPage - 1)

\* The items are delivered in descending order of the timestamp.
Descending(items) ==
    \A i \in 1..(Len(items) - 1) : TimeAttr(items[i]) >= TimeAttr(items[i + 1])

InWindow(item) == wAfter <= TimeAttr(item) /\ TimeAttr(item) < wBefore

\* The filter is finished: it stopped early or the lazy sequence ended.
WindowEnded == lzPc = "done" \/ (lzPc = "suspended" /\ ~WindowRunning)

\* C25: given items delivered in descending order of the timestamp, a time
\* window produces exactly the items with after <= t < before, in delivered
\* order.
C25_WindowProducesTheItemsInside ==
    (LazyLink \/ LazyDate) =>
        ((WindowEnded /\ Descending(Delivered)) =>
            iterate_by_time_window(lzOut, wBefore, wAfter) = SelectSeq(Delivered, InWindow))

C25_Witness ==
    /\ LazyDate /\ lzPc = "done"
    /\ Descending(Delivered) /\ Len(Delivered) = 3
    /\ TimeAttr(lzOut[1]) = wBefore /\ TimeAttr(lzOut[3]) = wAfter
    /\ Len(iterate_by_time_window(lzOut, wBefore, wAfter)) = 2

\* C26: a time window stops pulling as soon as it sees an item strictly
\* before after: that item is the last one pulled from the lazy sequence, and
\* the last request issued is the one that fetched its page, however many
\* pages remain.
C26_WindowStopsAtTheLowerBound ==
    (LazyLink \/ LazyDate) =>
        \A i \in 1..Len(lzOut) :
            TimeAttr(lzOut[i]) < wAfter =>
                /\ i = Len(lzOut)
                /\ Len(lzRequests) = lzOut[i][1]
                /\ lzPc = "suspended"

C26_Witness ==
    /\ LazyLink /\ lzPc = "suspended" /\ ~WindowRunning
    /\ Len(lzOut) = 1 /\ Len(lzRequests) = 1
    /\ NumPages = 3 /\ \A u \in 1..NumPages : Len(server[u].items) = 2

(***************************************************************************)
(* The sessions and the credentials.                                       *)
(***************************************************************************)

\* The requests sent so far.
SentRequests == {i \in DOMAIN ssLog : ssLog[i].kind \in {"call", "stream"}}

\* C27: every request of a handle constructed with credentials carries the
\* Api-User and Api-Key headers with the configured values, for _call_api and
\* _stream_api, on a per-access session, on a with_session session and on a
\* session the caller supplied at construction.
C27_CredentialsOnEveryRequest ==
    ssAuth # NoAuth =>
        \A i \in SentRequests : AuthHeaders(ssAuth) \subseteq ssLog[i].headers

\* C28: on a handle created without a session every access to `session`
\* creates a session distinct from all earlier ones; on the handle yielded by
\* with_session every access returns one and the same session, which is none
\* of the sessions of the original handle.
C28_SessionIdentity ==
    LET of(h) == {i \in DOMAIN ssLog : ssLog[i].handle = h}
    IN  /\ ssField["orig"] = 0 =>
               \A i, j \in of("orig") : i # j => ssLog[i].session # ssLog[j].session
        /\ \A i \in of("ws") : ssLog[i].session = ssField["ws"] /\ ssField["ws"] > 0
        /\ \A i \in of("ws"), j \in of("orig") : ssLog[i].session # ssLog[j].session

C28_Witness ==
    /\ ssField["orig"] = 0 /\ Len(ssLog) = 3
    /\ ssLog[1].handle = "orig" /\ ssLog[2].handle = "ws" /\ ssLog[3].handle = "ws"
    /\ ssLog[2].session = ssLog[3].session
    /\ ssLog[1].session # ssLog[2].session

(***************************************************************************)
(* configure_task.                                                         *)
(***************************************************************************)

\* The keys of the JSON body configure_task sent.
SentKeys == {kv[1] : kv \in fcSent.data}

\* C29: configure_task sends a PATCH to /tasks/{task_id} whose JSON body
\* holds `activated` whenever it was specified, True or False alike, and
\* `priority` whenever it was specified, 0 included; an argument left at
\* None is left out.
C29_SpecifiedArgumentsAreSent ==
    fcCall.method = "configure_task" =>
        /\ fcSent.method = "PATCH" /\ fcSent.url = "/tasks/task_id"
        /\ "activated" \in SentKeys <=> fcSent.activated # "None"
        /\ "priority" \in SentKeys <=> fcSent.priority # "None"

(***************************************************************************)
(* The size of what _paginate returns under a limit.                       *)
(***************************************************************************)

\* P: the size of the largest page the server holds.
LargestPage ==
    CHOOSE p \in 0..MaxPageLen :
        /\ \A u \in DOMAIN server : Len(server[u].items) <= p
        /\ \E u \in DOMAIN server : Len(server[u].items) = p

\* C30: _paginate called with params.limit = K >= 1 over pages of at most P
\* items returns at most K - 1 + P items (and never holds more on the way).
C30_AtMostLimitPlusOnePage ==
    (HasLimit(pgParams) /\ pgParams.limit >= 1) =>
        Len(pgData) <= pgParams.limit - 1 + LargestPage

\* The bound is attained, above the limit itself: K = 2, pages of 1 and 2
\* items, 3 items returned.
C30_Witness ==
    /\ pgPc = "returned" /\ HasLimit(pgParams) /\ pgParams.limit = 2
    /\ Len(pgRequests) = 2
    /\ Len(pgData) = 3 /\ LargestPage = 2

(***************************************************************************)
(* How much of the body a stream has read.                                 *)
(***************************************************************************)

\* C31: _stream_api never holds the full body: when line i has been produced
\* only the part of the body needed for the lines 1..i, plus one read-ahead
\* chunk, has been read from the connection, the classification of the
\* status included.
C31_StreamReadsNoFurtherThanItProduced ==
    stRead <= Len(stOut) + ReadAhead

(***************************************************************************)
(* A lookup that raises.                                                   *)
(***************************************************************************)

\* The last operation was a lookup that raised.
LookupRaised == lastOp.op = "lookup" /\ ~lastOp.ok

\* C38: a failed lookup is never memoized: a build_by_id / version_by_id that
\* raises leaves both tables as they were, and the next lookup of the same
\* identifier issues a new request (and may succeed: its result is stored).
C38_FailureIsNotMemoized ==
    /\ [][(lastOp'.op = "lookup" /\ ~lastOp'.ok) =>
              /\ cache' = cache
              /\ lastOp'.fetched /\ fetches' = fetches + 1]_vars
    /\ [][(LookupRaised /\ lastOp'.op = "lookup"
              /\ lastOp'.table = lastOp.table
              /\ Ident(lastOp'.key) = Ident(lastOp.key)) =>
              /\ lastOp'.fetched /\ fetches' = fetches + 1
              /\ lastOp'.ok =>
                     CacheGet(cache'[lastOp.table], lastOp'.key) = lastOp'.entity]_vars

(***************************************************************************)
(* Threads sharing one cached handle.                                      *)
(***************************************************************************)

\* C32: under any interleaving of lookups and clear_caches by threads that
\* share one cached handle, each table holds at most CACHE_SIZE entries and
\* at most one entry per identifier, and every lookup returns the entity
\* fetched for the identifier it was called with.
C32_TablesStayCoherent ==
    /\ \A t \in Tables :
           /\ Len(thCache[t]) <= CACHE_SIZE
           /\ \A i, j \in DOMAIN thCache[t] :
                  IdOf(thCache[t][i].key) = IdOf(thCache[t][j].key) => i = j
           /\ \A i \in DOMAIN thCache[t] :
                  thCache[t][i].entity.id = IdOf(thCache[t][i].key)
    /\ \A th \in Threads :
           thRet[th].entity # NoEntity => thRet[th].entity.id = thRet[th].id

(***************************************************************************)
(* The dict the caller passed as params.                                   *)
(***************************************************************************)

\* C33: the params mapping passed by the caller is immutable per call: with
\* iterate, iterate_by_date or a method that forwards the caller's params
\* (patches_by_project) fully or partly consumed, the caller's mapping has
\* the keys and values it was passed with.
C33_CallerParamsUntouched ==
    lzCaller.now = lzCaller.passed

(***************************************************************************)
(* The class of the handle with_session yields.                            *)
(***************************************************************************)

\* C34: the handle yielded by with_session has the variant of the handle it
\* was obtained from: from a RetryingEvergreenApi its calls are retried,
\* from a CachedEvergreenApi its lookups are memoized.
C34_WithSessionKeepsTheVariant ==
    ssField["ws"] # -1 =>
        /\ HasRetry(ssVariant["ws"]) <=> HasRetry(ssVariant["orig"])
        /\ HasCache(ssVariant["ws"]) <=> HasCache(ssVariant["orig"])

(***************************************************************************)
(* _paginate over next links that may never end.                           *)
(***************************************************************************)

\* Every page the server returns is non-empty.
EveryPageNonEmpty == \A u \in DOMAIN server : server[u].items # <<>>

\* Every page returned after the first response is empty.
LaterPagesEmpty ==
    \A u \in DOMAIN server : HasNext(u) => server[server[u].next].items = <<>>

\* With a limit K >= 1 and every page non-empty, at most K requests are
\* issued and the loop has ended with the K-th.
EndsWithinLimit ==
    (HasLimit(pgParams) /\ pgParams.limit >= 1 /\ EveryPageNonEmpty) =>
        /\ Len(pgRequests) <= pgParams.limit
        /\ Len(pgRequests) = pgParams.limit => pgPc # "looping"

\* C35 as stated: with params.limit = K >= 1 and every page non-empty,
\* _paginate ends after at most K requests, even over next links that never
\* end; without a limit, or when the pages beyond the first are empty, it
\* returns only if some response carries no next link.
C35_EndsOnlyWithoutNextLink ==
    /\ EndsWithinLimit
    /\ (pgPc = "returned"
           /\ (~HasLimit(pgParams) \/ (pgParams.limit >= 1 /\ LaterPagesEmpty))) =>
           ~HasNext(pgResponse)

\* C35 amended: the pages beyond the first being empty, it returns only at a
\* response without next link provided the first page holds fewer than K items.
C35_EndsWithinLimitOrWithoutNextLink ==
    /\ EndsWithinLimit
    /\ (pgPc = "returned"
           /\ (~HasLimit(pgParams)
                  \/ (pgParams.limit >= 1 /\ LaterPagesEmpty
                         /\ Len(server[1].items) < pgParams.limit))) =>
           ~HasNext(pgResponse)

\* Next links that never end, every page non-empty, K = 2: _paginate
\* returned with its second request.
C35_Witness ==
    /\ server \in Cycles /\ EveryPageNonEmpty
    /\ HasLimit(pgParams) /\ pgParams.limit = 2
    /\ pgPc = "returned" /\ Len(pgRequests) = 2 /\ HasNext(pgResponse)

(***************************************************************************)
(* The attempts of the page requests of one operation.                     *)
(***************************************************************************)

RECURSIVE SumOf(_)
SumOf(q) == IF q = <<>> THEN 0 ELSE Head(q) + SumOf(Tail(q))

\* The HTTP requests the operation has issued so far.
RequestsIssued == SumOf(rpDone) + Len(attempts)

\* The page requests that are over, of _paginate or of the lazy sequence.
PageRequests == IF lzPc = "idle" THEN pgRequests ELSE lzRequests

\* C36: on the retrying variant the attempt budget is per page request: each
\* call of _call_api made by fetch_all, iterate or iterate_by_date has 3
\* attempts of its own whatever failed on earlier pages, N page requests
\* issue at most 3 * N requests, and the pages are requested in order, none
\* skipped and none again once it succeeded.
C36_BudgetPerPageRequest ==
    /\ Len(attempts) <= MAX_RETRIES
    /\ \A i \in DOMAIN rpDone : rpDone[i] \in 1..MAX_RETRIES
    /\ RequestsIssued <= MAX_RETRIES * rpCalls
    /\ variant = "retrying" =>
           /\ callPc = "calling" => Len(attempts) < MAX_RETRIES
           /\ \A i \in DOMAIN attempts :
                  i < Len(attempts) => RetryIf(attempts[i].exc)
           /\ (callPc = "raised" /\ RetryIf(callFailure)) =>
                  Len(attempts) = MAX_RETRIES
    /\ Len(PageRequests) \in {rpCalls - 1, rpCalls}
    /\ (lzPc = "idle" \/ KindOf(lzVia) = "link") =>
           \A i \in DOMAIN PageRequests : PageRequests[i].url = i

\* The first page was answered at its third attempt, and so was the second.
C36_Witness ==
    /\ variant = "retrying" /\ rpCalls = 2 /\ rpDone = <<MAX_RETRIES>>
    /\ callPc = "returned" /\ Len(attempts) = MAX_RETRIES
    /\ Len(PageRequests) = 2
    /\ RequestsIssued = MAX_RETRIES * 2

(***************************************************************************)
(* A page request of _paginate that fails.                                 *)
(***************************************************************************)

\* C37: when the request for a page of fetch_all fails (on the retrying
\* variant: after its retries), fetch_all raises that failure, returns no
\* list of the items gathered from the earlier pages, and issues no further
\* request.
C37_FailureEndsPaginate ==
    /\ [](pgPc = "raised" =>
              /\ callPc = "raised" /\ callFailure # NoExc
              /\ callFailure = attempts[Len(attempts)].exc)
    /\ [](pgPc = "returned" => callPc = "returned")
    /\ [][(callPc = "raised" /\ pgPc \in {"start", "looping"}) =>
              (pgPc' = "raised" /\ UNCHANGED <<attempts, rpCalls>>)]_vars
    /\ [][pgPc = "raised" =>
              (pgPc' = "raised" /\ UNCHANGED <<pgRequests, attempts, rpCalls>>)]_vars

\* The second page of a fetch_all on the retrying variant failed three
\* times, with items of the first page gathered.
C37_Witness ==
    /\ variant = "retrying" /\ pgPc = "raised"
    /\ rpCalls = 2 /\ Len(attempts) = MAX_RETRIES
    /\ pgData # <<>>

(***************************************************************************)
(* The retry of the calls that change a task.                              *)
(***************************************************************************)

\* The requests the server has been sent by the call under way.
Received == [n \in DOMAIN attempts |-> AttemptSends(fcSent, n)]

\* C39: on the retrying variant the retry does not look at the HTTP method:
\* a call that changes state (restart_task, abort_task and configure_patch by
\* POST, configure_task by PATCH, annotate_task by PUT) whose attempt fails with an
\* HTTP-status or connection failure is sent again with the same url and
\* body, up to 3 times in all: the server can get the request more than once.
C39_StateChangesAreRetried ==
    (variant = "retrying"
        /\ fcCall.method \in TaskChanges \cup {"configure_task", "configure_patch"}) =>
        /\ fcSent.method \in {"POST", "PATCH", "PUT"}
        /\ Len(attempts) <= MAX_RETRIES
        /\ \A n \in DOMAIN Received : Received[n] = fcSent
        /\ \A n \in DOMAIN attempts : n < Len(attempts) => RetryIf(attempts[n].exc)
        /\ (callPc = "raised" /\ RetryIf(callFailure)) => Len(attempts) = MAX_RETRIES
        /\ (callPc = "calling" /\ attempts # <<>>) =>
               (RetryIf(attempts[Len(attempts)].exc) /\ Len(attempts) < MAX_RETRIES)

\* A restart_task was sent three times and the third was answered.
C39_Witness ==
    /\ variant = "retrying" /\ fcCall.method = "restart_task"
    /\ fcSent.method = "POST"
    /\ callPc = "returned" /\ Len(Received) = MAX_RETRIES

====
